---- MODULE Spec2Model ----
(***************************************************************************)
(* Model of the tweets-2-bsky migration pipeline (src/src/index.ts, the    *)
(* multi-account variant that starts at line 675): the text chunker        *)
(* splitText, the job-status poll loop of uploadVideoToBluesky and the     *)
(* per-item sequencer processTweets with its persisted history.            *)
(*                                                                         *)
(* Three specifications share the variables:                               *)
(*   SpecSplit  - splitText applied to every bounded text and limit        *)
(*   SpecVideo  - uploadVideoToBluesky: upload response, then the polls    *)
(*   Spec       - processTweets run repeatedly against one history file    *)
(***************************************************************************)
EXTENDS Integers, Sequences, FiniteSets, TLC

VARIABLES
    \* ---- splitText ----
    sText,            \* the argument text (a sequence of characters)
    sLimit,           \* the argument limit
    sChunks,          \* the returned array of chunks
    sPc,              \* "input" before the call, "loop" in the while loop, "done" after it
    sRemaining,       \* the local `remaining` of splitText (line 1039)
    \* ---- uploadVideoToBluesky ----
    vPc,              \* "start" | "poll" | "success" | "failed" | "timeout"
    attempts,         \* the attempts counter of the poll loop: one per status request
    blob,             \* the blob reference held by the local `blob` (0 = undefined)
    lastBlob,         \* the blob reference of the latest response that carried one
    allPending,       \* every status response so far was ok and in a state still processing
    \* ---- processTweets ----
    file,             \* processed/<username>.json: the persisted history
    processedTweets,  \* the in-memory history of the running processTweets
    loaded,           \* the history as loadProcessedTweets returned it for this run
    tweets,           \* the batch being processed (after tweets.reverse())
    dryRun,           \* the dryRun argument of the run
    idx,              \* position of the for-of loop over tweets (1-based)
    pc,               \* "idle" | "loop" | "posting"
    tweet,            \* the item whose chunks are being posted
    chunks,           \* the chunks of that item
    ci,               \* the chunk index i (0-based, as in the code)
    lastPostInfo,     \* lastPostInfo of the chunk loop
    posts,            \* the destination network: the set of posts created
    writes,           \* per item id, the number of times an entry was assigned and saved
    runs,             \* number of processTweets calls started
    repeat,           \* TRUE while the run repeats the batch of the run before it
    \* ---- processTweets, the preparation of one item (lines 1165-1284) ----
    text,             \* the local `text`
    mediaEntities,    \* the media entities of the item
    mi,               \* position of the for-of loop over mediaEntities (1-based)
    images,           \* the local `images`: the image blobs, by entity position
    videoBlob,        \* the local `videoBlob` (0 = null)
    mediaLinksToRemove, \* the local `mediaLinksToRemove`
    quoted,           \* quoted_status_id_str of a quote item (0 = not a quote)
    quoteEmbed,       \* the record reference of the local `quoteEmbed` (NoRef = null)
    fetched,          \* the entity positions downloadMedia was called for
    uploads,          \* the calls of uploadVideoToBluesky: entity position and size
    tooLarge,         \* the entity positions whose video was found too large
    \* ---- importHistory and safeSearch ----
    importPc,         \* "fetch" | "refresh" | "page" | "done" | "failed"
    importLimit,      \* the limit argument of importHistory (0: none)
    maxId,            \* the local `maxId` (0 = null)
    allFoundTweets,   \* the local `allFoundTweets`: the ids collected, in order
    seenIds,          \* the local `seenIds`
    result,           \* what the last safeSearch call returned
    searches,         \* client.search calls made by the current safeSearch call
    refreshes,        \* refreshQueryIds calls made by the current safeSearch call
    firstFailure,     \* how the first search of the current safeSearch call failed
    calls,            \* safeSearch calls made by importHistory
    \* ---- the scheduler: main loop, checkAndPost, the backfill queue ----
    backfillQueue,    \* the server's queue of pending backfill requests
    replaced,         \* TRUE when the latest request took the place of a queued one
    schedPc,          \* "sleep" | "check" | "backfilling"
    pendingBackfills, \* checkAndPost's local `pendingBackfills` (line 1387)
    forceBackfill,    \* the forceBackfill argument of checkAndPost
    mappingIdx,       \* position of the for-of loop over config.mappings (1-based)
    enabled,          \* mapping.enabled, per mapping id
    lastServed,       \* what the loop last did for a mapping in this check
    activeAgents,     \* the mapping ids whose agent is in the cache `activeAgents` (line 1360)
    logins,           \* per mapping id, the agent.login calls made in this check
    \* ---- the process ----
    killedWith,       \* the history file as it was when the process was last killed
    \* ---- the single-account variant (index.ts 1-671): cron-scheduled checks ----
    checks,           \* per checkAndPost call: where it is ("idle" | "loop" | "item") and at which item
    processedShared,  \* the module-level `processedTweets` (line 136): the ids with an entry
    cronPosts,        \* per item id, the number of posts created for it
    \* ---- the choice of a video variant (index.ts 1219-1230) ----
    variants,         \* media.video_info.variants of one video entity, in input order
    mp4s,             \* the filtered and sorted copy
    downloads,        \* the urls handed to downloadMedia for this entity
    selPc,            \* "entity" | "sorted" | "done"
    \* ---- the source account ----
    account,          \* what its items are: "any" | "thread" (each item replies to the one before)
    \* ---- the history store of the database variant (part_000) ----
    rows,             \* the rows of the table processed_tweets
    lastCall          \* the argument of the last saveTweet call, and whether its key had a row

splitVars == <<sText, sLimit, sChunks, sPc, sRemaining>>
videoVars == <<vPc, attempts, blob, lastBlob, allPending>>
pipeVars == <<file, processedTweets, loaded, tweets, dryRun, idx, pc, tweet, chunks,
              ci, lastPostInfo, posts, writes, runs, repeat>>
itemVars == <<text, mediaEntities, mi, images, videoBlob, mediaLinksToRemove, quoted,
              quoteEmbed, fetched, uploads, tooLarge>>
importVars == <<importPc, importLimit, maxId, allFoundTweets, seenIds, result, searches,
                refreshes, firstFailure, calls>>
schedVars == <<backfillQueue, replaced, schedPc, pendingBackfills, forceBackfill,
               mappingIdx, enabled, lastServed, activeAgents, logins>>

processVars == <<killedWith>>
cronVars == <<checks, processedShared, cronPosts>>
variantVars == <<variants, mp4s, downloads, selPc>>
accountVars == <<account>>
storeVars == <<rows, lastCall>>

vars == <<splitVars, videoVars, pipeVars, itemVars, importVars, schedVars, processVars,
          cronVars, variantVars, accountVars, storeVars>>

-----------------------------------------------------------------------------
(* Bounds of the model *)

MaxLen == 6
MaxLimit == 3

-----------------------------------------------------------------------------
(* JavaScript string primitives, on sequences of one-character strings *)

Chars == {"a", ".", " ", "\n"}

IsWhitespace(c) == c \in {" ", "\n"}

SetMax(S) == CHOOSE x \in S : \A y \in S : y <= x

Min(a, b) == IF a <= b THEN a ELSE b

\* String.prototype.lastIndexOf(pat, pos): the greatest 0-based index k <= pos
\* at which pat occurs, -1 when there is none.
LastIndexOf(str, pat, pos) ==
    LET cands == {k \in 0..Min(pos, Len(str) - Len(pat)) :
                    SubSeq(str, k + 1, k + Len(pat)) = pat}
    IN IF cands = {} THEN -1 ELSE SetMax(cands)

\* String.prototype.substring(from, to) with 0-based, end-exclusive indices.
Substring(str, from, to) == SubSeq(str, Min(from, Len(str)) + 1, Min(to, Len(str)))

RECURSIVE TrimStart(_)
TrimStart(str) ==
    IF Len(str) > 0 /\ IsWhitespace(Head(str)) THEN TrimStart(Tail(str)) ELSE str

RECURSIVE TrimEnd(_)
TrimEnd(str) ==
    IF Len(str) > 0 /\ IsWhitespace(str[Len(str)])
    THEN TrimEnd(SubSeq(str, 1, Len(str) - 1))
    ELSE str

\* String.prototype.trim()
Trim(str) == TrimEnd(TrimStart(str))

-----------------------------------------------------------------------------
(* splitText (index.ts 1035-1069) *)

ParagraphBreak == <<"\n", "\n">>
SentenceBreak == <<".", " ">>
Space == <<" ">>

\* The increment applied to the index of a sentence break ("Include the period").
SentenceAdjust(k) == k + 1

\* Mutant of SplitIndex: the latest boundary of any kind wins, whatever its
\* kind.
SplitIndexLatestBreak(remaining, limit) ==
    LET para == LastIndexOf(remaining, ParagraphBreak, limit)
        sent == LastIndexOf(remaining, SentenceBreak, limit)
        spc  == LastIndexOf(remaining, Space, limit)
        best == SetMax({para, IF sent # -1 THEN SentenceAdjust(sent) ELSE -1, spc})
    IN IF best # -1 THEN best ELSE limit

\* Lines 1047-1062: the index at which the remaining text is cut.
SplitIndex(remaining, limit) ==
    LET para == LastIndexOf(remaining, ParagraphBreak, limit)
        sent == LastIndexOf(remaining, SentenceBreak, limit)
        spc  == LastIndexOf(remaining, Space, limit)
    IN IF para # -1 THEN para
       ELSE IF sent # -1 THEN SentenceAdjust(sent)
       ELSE IF spc # -1 THEN spc
       ELSE limit

\* Line 1064: the chunk pushed by one iteration.
SplitChunk(remaining, limit) == Trim(Substring(remaining, 0, SplitIndex(remaining, limit)))

\* Mutant of SplitRest: the character at the cut is taken for a separator and
\* dropped.
SplitRestSkipsSeparator(remaining, limit) ==
    Trim(Substring(remaining, SplitIndex(remaining, limit) + 1, Len(remaining)))

\* Mutant of SplitRest: the rest is not trimmed.
SplitRestUntrimmed(remaining, limit) ==
    Substring(remaining, SplitIndex(remaining, limit), Len(remaining))

\* Line 1065: the text left for the next iteration.
SplitRest(remaining, limit) ==
    Trim(Substring(remaining, SplitIndex(remaining, limit), Len(remaining)))

\* Mutant of SplitLoop: `while (true)`, the loop no longer stops at an empty
\* remainder.
RECURSIVE SplitLoopAlways(_, _, _)
SplitLoopAlways(remaining, limit, acc) ==
    IF Len(remaining) <= limit THEN Append(acc, remaining)
    ELSE SplitLoopAlways(SplitRest(remaining, limit), limit,
                         Append(acc, SplitChunk(remaining, limit)))

\* Lines 1041-1066: the while loop, from `remaining` with `acc` already pushed.
RECURSIVE SplitLoop(_, _, _)
SplitLoop(remaining, limit, acc) ==
    IF Len(remaining) = 0 THEN acc
    ELSE IF Len(remaining) <= limit THEN Append(acc, remaining)
    ELSE SplitLoop(SplitRest(remaining, limit), limit,
                   Append(acc, SplitChunk(remaining, limit)))

\* Mutant of splitText: line 1036 is gone, every text enters the loop.
splitTextWithoutShortcut(str, limit) == SplitLoop(str, limit, <<>>)

\* Lines 1035-1069.
splitText(str, limit) ==
    IF Len(str) <= limit THEN <<str>> ELSE SplitLoop(str, limit, <<>>)

SplitInit ==
    /\ sText \in UNION {[1..n -> Chars] : n \in 0..MaxLen}
    /\ sLimit \in 1..MaxLimit
    /\ sChunks = <<>>
    /\ sPc = "input"
    /\ sRemaining = << >>

\* The call chunks = splitText(text, limit).
CallSplitText ==
    /\ sPc = "input"
    /\ sChunks' = splitText(sText, sLimit)
    /\ sPc' = "done"
    /\ UNCHANGED <<sText, sLimit, sRemaining>>
    /\ UNCHANGED <<videoVars, pipeVars, itemVars, importVars, schedVars, processVars, cronVars, variantVars, accountVars, storeVars>>

\* splitText statement by statement: one step per return and per iteration
\* of the while loop.
SplitFrame ==
    /\ UNCHANGED <<sText, sLimit>>
    /\ UNCHANGED <<videoVars, pipeVars, itemVars, importVars, schedVars, processVars, cronVars, variantVars, accountVars, storeVars>>

\* Line 1036: `if (text.length <= limit) return [text]`.
ReturnShort ==
    /\ sPc = "input"
    /\ Len(sText) <= sLimit
    /\ sChunks' = <<sText>>
    /\ sPc' = "done"
    /\ UNCHANGED sRemaining
    /\ SplitFrame

\* Lines 1038-1039: `chunks = []`, `remaining = text`.
EnterLoop ==
    /\ sPc = "input"
    /\ Len(sText) > sLimit
    /\ sChunks' = << >>
    /\ sRemaining' = sText
    /\ sPc' = "loop"
    /\ SplitFrame

\* Lines 1042-1045: the rest fits, it is pushed and the loop is left.
PushRest ==
    /\ sPc = "loop"
    /\ Len(sRemaining) > 0
    /\ Len(sRemaining) <= sLimit
    /\ sChunks' = Append(sChunks, sRemaining)
    /\ sPc' = "done"
    /\ UNCHANGED sRemaining
    /\ SplitFrame

\* Lines 1047-1065: one cut.
CutAndPush ==
    /\ sPc = "loop"
    /\ Len(sRemaining) > sLimit
    /\ sChunks' = Append(sChunks, SplitChunk(sRemaining, sLimit))
    /\ sRemaining' = SplitRest(sRemaining, sLimit)
    /\ UNCHANGED sPc
    /\ SplitFrame

\* Line 1041, false: nothing remains.
LoopExit ==
    /\ sPc = "loop"
    /\ Len(sRemaining) = 0
    /\ sPc' = "done"
    /\ UNCHANGED <<sChunks, sRemaining>>
    /\ SplitFrame

SplitLoopNext ==
    \/ ReturnShort
    \/ EnterLoop
    \/ PushRest
    \/ CutAndPush
    \/ LoopExit

-----------------------------------------------------------------------------
(* uploadVideoToBluesky (index.ts 938-1029) *)

\* Line 1018: `if (attempts > 60)`.
PollCeiling == 60

\* Bound of the model on the attempts counter, which the code leaves unbounded
\* while status requests keep failing.
MaxAttempts == 64

\* Blob references a response can carry.
BlobRefs == {1, 2}

\* Mutant of TimedOut: the ceiling itself already times out.
TimedOutAtCeiling(n) == n >= PollCeiling

\* Line 1018: the timeout test that ends an iteration of the poll loop.
TimedOut(n) == n > PollCeiling

VideoInit ==
    /\ vPc = "start"
    /\ attempts = 0
    /\ blob = 0
    /\ lastBlob = 0
    /\ allPending = TRUE

\* Lines 943-978: getServiceAuth throws, or the upload answers with an error status.
UploadRejected ==
    /\ vPc = "start"
    /\ vPc' = "failed"
    /\ UNCHANGED <<attempts, blob, lastBlob>>
    /\ UNCHANGED allPending
    /\ UNCHANGED <<splitVars, pipeVars, itemVars, importVars, schedVars, processVars, cronVars, variantVars, accountVars, storeVars>>

\* Lines 980-986, 1024: the upload response already carries the blob: no poll.
UploadInline ==
    /\ vPc = "start"
    /\ \E b \in BlobRefs :
        /\ blob' = b
        /\ lastBlob' = b
    /\ vPc' = "success"
    /\ UNCHANGED attempts
    /\ UNCHANGED allPending
    /\ UNCHANGED <<splitVars, pipeVars, itemVars, importVars, schedVars, processVars, cronVars, variantVars, accountVars, storeVars>>

\* Lines 980-989: the upload response carries a job id only: attempts = 0, poll.
UploadAccepted ==
    /\ vPc = "start"
    /\ vPc' = "poll"
    /\ attempts' = 0
    /\ UNCHANGED <<blob, lastBlob>>
    /\ allPending' = TRUE
    /\ UNCHANGED <<splitVars, pipeVars, itemVars, importVars, schedVars, processVars, cronVars, variantVars, accountVars, storeVars>>

\* Line 995: the status fetch itself throws (transport error): caught at 1025, rethrown.
PollThrows ==
    /\ vPc = "poll"
    /\ attempts < MaxAttempts
    /\ attempts' = attempts + 1
    /\ vPc' = "failed"
    /\ UNCHANGED <<blob, lastBlob>>
    /\ allPending' = FALSE
    /\ UNCHANGED <<splitVars, pipeVars, itemVars, importVars, schedVars, processVars, cronVars, variantVars, accountVars, storeVars>>

\* Lines 996-1000: a status response that is not ok: sleep, then `continue`.
PollNotOk ==
    /\ vPc = "poll"
    /\ attempts < MaxAttempts
    /\ attempts' = attempts + 1
    /\ UNCHANGED <<vPc, blob, lastBlob>>
    /\ allPending' = FALSE
    /\ UNCHANGED <<splitVars, pipeVars, itemVars, importVars, schedVars, processVars, cronVars, variantVars, accountVars, storeVars>>

\* Lines 1008-1010, 1018-1021, 1024: the response carries the blob.
PollBlob ==
    /\ vPc = "poll"
    /\ attempts < MaxAttempts
    /\ attempts' = attempts + 1
    /\ \E b \in BlobRefs :
        /\ blob' = b
        /\ lastBlob' = b
    /\ vPc' = IF TimedOut(attempts') THEN "timeout" ELSE "success"
    /\ allPending' = FALSE
    /\ UNCHANGED <<splitVars, pipeVars, itemVars, importVars, schedVars, processVars, cronVars, variantVars, accountVars, storeVars>>

\* Lines 1011-1012: state JOB_STATE_FAILED.
PollFailed ==
    /\ vPc = "poll"
    /\ attempts < MaxAttempts
    /\ attempts' = attempts + 1
    /\ vPc' = "failed"
    /\ UNCHANGED <<blob, lastBlob>>
    /\ allPending' = FALSE
    /\ UNCHANGED <<splitVars, pipeVars, itemVars, importVars, schedVars, processVars, cronVars, variantVars, accountVars, storeVars>>

\* Lines 1013-1020: any other state: sleep, then the timeout test.
PollProcessing ==
    /\ vPc = "poll"
    /\ attempts < MaxAttempts
    /\ attempts' = attempts + 1
    /\ vPc' = IF TimedOut(attempts') THEN "timeout" ELSE "poll"
    /\ UNCHANGED <<blob, lastBlob>>
    /\ UNCHANGED allPending
    /\ UNCHANGED <<splitVars, pipeVars, itemVars, importVars, schedVars, processVars, cronVars, variantVars, accountVars, storeVars>>

VideoNext ==
    \/ UploadRejected
    \/ UploadInline
    \/ UploadAccepted
    \/ PollThrows
    \/ PollNotOk
    \/ PollBlob
    \/ PollFailed
    \/ PollProcessing

-----------------------------------------------------------------------------
(* History entries (ProcessedTweetEntry, index.ts 697-703).  An absent      *)
(* optional field is NoUri (uri, cid), NoRef (root) or FALSE (migrated,     *)
(* skipped).  A uri (and the cid that comes with it) names the post it was  *)
(* issued for: the nth post created for chunk `chunk` of item `item`.       *)

MaxId == 3
MaxRuns == 2
MaxLegacy == 1

Ids == 1..MaxId

NoUri == [item |-> 0, chunk |-> 0, nth |-> 0]

NoRef == [uri |-> NoUri, cid |-> NoUri]

\* { skipped: true } (line 1153)
SkipMarker ==
    [uri |-> NoUri, cid |-> NoUri, root |-> NoRef, migrated |-> FALSE, skipped |-> TRUE]

\* { migrated: true }: the entry the v1 -> v2 migration of the history file
\* writes for every id of a v1 file (lines 142-149).
MigratedMarker ==
    [uri |-> NoUri, cid |-> NoUri, root |-> NoRef, migrated |-> TRUE, skipped |-> FALSE]

\* `null`, as in `replyParentInfo = null`: every optional access yields undefined.
NullEntry ==
    [uri |-> NoUri, cid |-> NoUri, root |-> NoRef, migrated |-> FALSE, skipped |-> FALSE]

\* processedTweets[id] is truthy
Has(map, id) == id \in DOMAIN map

\* processedTweets[id] = entry
Put(map, id, entry) == [k \in DOMAIN map \cup {id} |-> IF k = id THEN entry ELSE map[k]]

\* The value saveProcessedTweets leaves in the file (lines 812-819).
Saved(map) == map

\* Mutant of Loaded: the history starts empty, whatever the file holds.
LoadedEmpty(f) == << >>

\* The value loadProcessedTweets returns (lines 800-810).
Loaded(f) == f

-----------------------------------------------------------------------------
(* Items (Tweet, index.ts 754-768).  id 0 is a missing id, replyStatus 0 a  *)
(* missing in_reply_to_status_id; replyUser tells whether                   *)
(* in_reply_to_user_id is present (it is whenever the status id is).        *)

\* splitText's default limit (line 1035), used by the call at line 1281.
DefaultLimit == 300

Plain == <<"a">>
Mention == <<" ", "@", "a">>
Long == [k \in 1..(DefaultLimit + 1) |-> "a"]

Texts == {Plain, Mention, Long}

StartsWith(str, pat) == Len(str) >= Len(pat) /\ SubSeq(str, 1, Len(pat)) = pat

\* The id of an item of another account: it never is an item of a batch.
ForeignId == MaxId + 1

\* The items an id can stand for: not a reply, a reply without status id, a reply
\* to the item before it, or a reply to a foreign item.
ItemsOf(id) ==
    {t \in [id : {id}, replyStatus : {0, id - 1, ForeignId}, replyUser : BOOLEAN,
            text : Texts] :
        t.replyStatus # 0 => t.replyUser}

\* An account whose items form one thread: the first item is no reply, every
\* later item replies to the item before it.
ThreadItemsOf(id) ==
    {t \in ItemsOf(id) : IF id = 1 THEN ~(t.replyStatus # 0 \/ t.replyUser \/ t.text = Mention)
                         ELSE t.replyStatus = id - 1}

\* What the item with this id can be, in the account at hand.
Candidates(id) == IF account = "thread" THEN ThreadItemsOf(id) ELSE ItemsOf(id)

AccountInit == account = "any"

NoTweet == [id |-> 0, replyStatus |-> 0, replyUser |-> FALSE, text |-> <<>>]

\* A search result lists the newest item first; item ids grow with time.
Descending(lo, hi) == [k \in 1..(hi + 1 - lo) |-> hi + 1 - k]

\* The batches: the items lo..hi of the account, newest first (none if lo > hi).
Batches == {Descending(lo, hi) : lo \in Ids, hi \in 0..MaxId}

\* Mutant of Reverse: the batch is taken in the order it was given.
ReverseNot(seq) == [k \in 1..Len(seq) |-> seq[k]]

\* Array.prototype.reverse (line 1129)
Reverse(seq) == [k \in 1..Len(seq) |-> seq[Len(seq) + 1 - k]]

\* Mutant of AlreadyProcessed: only an entry that holds a post reference counts.
AlreadyProcessedPostedOnly(map, id) == Has(map, id) /\ map[id].uri # NoUri

\* Line 1135: `if (processedTweets[tweetId]) continue;`
AlreadyProcessed(map, id) == Has(map, id)

\* Mutant of IsReply: the leading '@' of the text is not looked at.
IsReplyByIdsOnly(t) == t.replyStatus # 0 \/ t.replyUser

\* Line 1142: isReply
IsReply(t) ==
    \/ t.replyStatus # 0
    \/ t.replyUser
    \/ StartsWith(Trim(t.text), <<"@">>)

\* Line 1147: the parent entry a reply may be threaded to.
ParentEligible(map, t) ==
    /\ t.replyStatus # 0
    /\ Has(map, t.replyStatus)
    /\ ~map[t.replyStatus].migrated

\* Line 1255: text.replace(/\n\s*\n/g, '\n\n').  A newline, the longest run of
\* whitespace after it that ends in a newline: replaced by two newlines.
RECURSIVE CollapseBlankLines(_)
CollapseBlankLines(str) ==
    LET nls == {k \in 1..Len(str) : str[k] = "\n"}
    IN IF nls = {} THEN str
       ELSE LET i == CHOOSE k \in nls : \A m \in nls : k <= m
                run == {m \in (i + 1)..Len(str) :
                          \A k \in (i + 1)..m : IsWhitespace(str[k])}
                ends == {m \in run : str[m] = "\n"}
            IN IF ends = {}
               THEN SubSeq(str, 1, i) \o
                    CollapseBlankLines(SubSeq(str, i + 1, Len(str)))
               ELSE SubSeq(str, 1, i - 1) \o <<"\n", "\n">> \o
                    CollapseBlankLines(SubSeq(str, SetMax(ends) + 1, Len(str)))

\* Lines 1253-1255: the text clean-up before chunking, for an item without media
\* links to remove.
Cleanup(str) == Trim(CollapseBlankLines(str))

\* Lines 1322-1327: postRecord.reply for the chunk about to be posted.
NoReply == [root |-> NoRef, parent |-> NoRef]

RefOf(e) == [uri |-> e.uri, cid |-> e.cid]

\* Mutant of ReplyRefs: every chunk is posted as a reply to the root.
ReplyRefsToRoot(last) ==
    IF last.uri # NoUri /\ last.cid # NoUri
    THEN [root |-> IF last.root # NoRef THEN last.root ELSE RefOf(last),
          parent |-> IF last.root # NoRef THEN last.root ELSE RefOf(last)]
    ELSE NoReply

\* Mutant of ReplyRoot: the root is recomputed as the parent's own reference.
ReplyRootIsParent(last) == RefOf(last)

\* Line 1324: the root of the reply reference.
ReplyRoot(last) == IF last.root # NoRef THEN last.root ELSE RefOf(last)

ReplyRefs(last) ==
    IF last.uri # NoUri /\ last.cid # NoUri
    THEN [root |-> ReplyRoot(last), parent |-> RefOf(last)]
    ELSE NoReply

\* Mutant of CurrentPostInfo: the root is always the post's own reference.
CurrentPostInfoOwnRoot(response, reply) ==
    [uri |-> response.uri, cid |-> response.cid, root |-> response,
     migrated |-> FALSE, skipped |-> FALSE]

\* Mutant of CurrentPostInfo: a post that is not a reply is given no root.
CurrentPostInfoNoOwnRoot(response, reply) ==
    [uri |-> response.uri, cid |-> response.cid,
     root |-> IF reply # NoReply THEN reply.root ELSE NoRef,
     migrated |-> FALSE, skipped |-> FALSE]

\* Lines 1331-1335: currentPostInfo
CurrentPostInfo(response, reply) ==
    [uri |-> response.uri, cid |-> response.cid,
     root |-> IF reply # NoReply THEN reply.root ELSE response,
     migrated |-> FALSE, skipped |-> FALSE]

-----------------------------------------------------------------------------
(* Texts with links, media entities and embeds (index.ts 1165-1278,         *)
(* 1302-1320).  A URL is written with one character per part that the code  *)
(* can tell apart: "T" is a t.co link, "U" the address of the item          *)
(* (https://twitter.com/<username>/status/<id>), "U" "V" and "U" "P" the    *)
(* pages of its video and photo (the address followed by /video/1 or        *)
(* /photo/1), "X" the address of a quoted item; "O" and "Q" are the labels  *)
(* `Original Tweet:` and `QT:`.                                             *)

MaxMedia == 2

Tco == <<"T">>
TweetUrl == <<"U">>
VideoPage == <<"U", "V">>
PhotoPage == <<"U", "P">>
QuoteUrl == <<"X">>

\* String.prototype.includes
Includes(str, pat) ==
    \E k \in 1..(Len(str) + 1 - Len(pat)) : SubSeq(str, k, k + Len(pat) - 1) = pat

\* The 1-based position of the first occurrence of pat in str, 0 if none.
IndexOf(str, pat) ==
    LET occ == {k \in 1..(Len(str) + 1 - Len(pat)) : SubSeq(str, k, k + Len(pat) - 1) = pat}
    IN IF occ = {} THEN 0 ELSE CHOOSE k \in occ : \A m \in occ : k <= m

\* String.prototype.replace with a string pattern: the first occurrence only.
ReplaceFirst(str, pat, by) ==
    LET k == IndexOf(str, pat)
    IN IF k = 0 THEN str
       ELSE SubSeq(str, 1, k - 1) \o by \o SubSeq(str, k + Len(pat), Len(str))

\* str.split(pat).join(''): every occurrence of pat is taken out, left to right.
RECURSIVE RemoveAll(_, _)
RemoveAll(str, pat) ==
    LET k == IndexOf(str, pat)
    IN IF k = 0 THEN str
       ELSE SubSeq(str, 1, k - 1) \o RemoveAll(SubSeq(str, k + Len(pat), Len(str)), pat)

\* Line 1254: the loop over mediaLinksToRemove, from the link at position k on.
RECURSIVE RemoveLinks(_, _, _)
RemoveLinks(str, links, k) ==
    IF k > Len(links) THEN str
    ELSE RemoveLinks(Trim(RemoveAll(str, links[k])), links, k + 1)

\* Lines 1241-1246: `Original Tweet: ` and the address of the item.
FallbackLink == <<"O", " ">> \o TweetUrl

\* Mutant of WithFallbackLink: the link is appended whatever the text holds.
WithFallbackLinkAlways(str) == str \o <<"\n", "\n">> \o FallbackLink

\* Lines 1241-1242 and 1245-1246: the link to the original item, appended unless
\* the text includes the address already.
WithFallbackLink(str) ==
    IF Includes(str, TweetUrl) THEN str
    ELSE str \o <<"\n", "\n", "O", " ">> \o TweetUrl

\* Mutant of WithQuoteLink: the link is appended whatever the text holds.
WithQuoteLinkAlways(str) == str \o <<"\n", "\n", "Q", " ">> \o QuoteUrl

\* Lines 1275-1278: the link to an external quote.
WithQuoteLink(str) ==
    IF Includes(str, QuoteUrl) THEN str
    ELSE str \o <<"\n", "\n", "Q", " ">> \o QuoteUrl

\* Line 1232: `buffer.length <= 100 * 1024 * 1024`
VideoSizeLimit == 104857600

\* The sizes a downloaded video can have: the largest that is uploaded, the
\* smallest that is not.
Sizes == {VideoSizeLimit, VideoSizeLimit + 1}

\* Line 1232: the video is small enough for the upload.
FitsUpload(size) == size <= VideoSizeLimit

\* The media entities of an item: a photo or a video, with its t.co link and
\* the page the link stands for.
Photo == [type |-> "photo", url |-> Tco, expanded_url |-> PhotoPage]
Video == [type |-> "video", url |-> Tco, expanded_url |-> VideoPage]

MediaLists == UNION {[1..n -> {Photo, Video}] : n \in 0..MaxMedia}

\* Lines 1193-1196: the links of an entity, pushed to mediaLinksToRemove.
PushLinks(links, media) ==
    IF media.url # << >>
    THEN IF media.expanded_url # << >>
         THEN links \o <<media.url, media.expanded_url>>
         ELSE Append(links, media.url)
    ELSE links

\* Mutant of AfterVideoUpload: no `break`, the loop goes on with the next entity.
AfterVideoUploadNext(k) == k + 1

\* Line 1237: `break` after the first uploaded video: the media loop is left.
AfterVideoUpload(k) == Len(mediaEntities) + 1

\* Embeds of a post record.
NoEmbed == [type |-> "none", video |-> 0, images |-> << >>, record |-> NoRef]

\* Mutant of Embed: every chunk carries the embed.
EmbedEveryChunk(i) ==
    IF videoBlob # 0
    THEN [type |-> "video", video |-> videoBlob, images |-> << >>, record |-> NoRef]
    ELSE IF images # << >>
    THEN [type |-> "images", video |-> 0, images |-> images, record |-> NoRef]
    ELSE NoEmbed

\* Lines 1302-1320: postRecord.embed of chunk i.
Embed(i) ==
    IF i # 0 THEN NoEmbed
    ELSE IF videoBlob # 0
    THEN [type |-> "video", video |-> videoBlob, images |-> << >>, record |-> NoRef]
    ELSE IF images # << >>
    THEN IF quoteEmbed # NoRef
         THEN [type |-> "recordWithMedia", video |-> 0, images |-> images,
               record |-> quoteEmbed]
         ELSE [type |-> "images", video |-> 0, images |-> images, record |-> NoRef]
    ELSE IF quoteEmbed # NoRef
    THEN [type |-> "record", video |-> 0, images |-> << >>, record |-> quoteEmbed]
    ELSE NoEmbed

\* The item locals before any item is prepared.
ItemInit ==
    /\ text = << >>
    /\ mediaEntities = << >>
    /\ mi = 1
    /\ images = << >>
    /\ videoBlob = 0
    /\ mediaLinksToRemove = << >>
    /\ quoted = 0
    /\ quoteEmbed = NoRef
    /\ fetched = {}
    /\ uploads = << >>
    /\ tooLarge = {}

-----------------------------------------------------------------------------
(* processTweets (index.ts 1122-1358) *)

PipeInit ==
    /\ \E k \in 0..MaxLegacy : file = [id \in 1..k |-> MigratedMarker]
    /\ processedTweets = << >>
    /\ loaded = << >>
    /\ tweets = << >>
    /\ dryRun = FALSE
    /\ idx = 1
    /\ pc = "idle"
    /\ tweet = NoTweet
    /\ chunks = << >>
    /\ ci = 0
    /\ lastPostInfo = NullEntry
    /\ posts = {}
    /\ writes = [id \in Ids |-> 0]
    /\ runs = 0
    /\ repeat = FALSE

\* Lines 1122-1129: the call, loadProcessedTweets and tweets.reverse().
StartRun ==
    /\ pc = "idle"
    /\ runs < MaxRuns
    /\ \E batch \in Batches, dry \in BOOLEAN :
        /\ tweets' = Reverse(batch)
        /\ dryRun' = dry
    /\ repeat' = FALSE
    /\ processedTweets' = Loaded(file)
    /\ loaded' = Loaded(file)
    /\ idx' = 1
    /\ pc' = "loop"
    /\ runs' = runs + 1
    /\ UNCHANGED <<file, tweet, chunks, ci, lastPostInfo, posts, writes>>
    /\ UNCHANGED <<splitVars, videoVars, itemVars, importVars, schedVars, processVars, cronVars, variantVars, accountVars, storeVars>>

\* `continue`: on to the next item of the batch.
Continue ==
    /\ idx' = idx + 1
    /\ pc' = "loop"
    /\ tweet' = NoTweet
    /\ chunks' = << >>
    /\ ci' = 0
    /\ lastPostInfo' = NullEntry

\* Lines 1132-1135: an item without id, or with a history entry, is passed over.
SkipKnown ==
    /\ pc = "loop"
    /\ idx <= Len(tweets)
    /\ \/ tweets[idx] = 0
       \/ AlreadyProcessed(processedTweets, tweets[idx])
    /\ Continue
    /\ UNCHANGED <<file, processedTweets, loaded, tweets, dryRun, posts, writes, runs,
                   repeat>>
    /\ UNCHANGED <<splitVars, videoVars, itemVars, importVars, schedVars, processVars, cronVars, variantVars, accountVars, storeVars>>

\* Lines 1146-1157: a reply without eligible parent entry: skip marker, saved
\* unless dryRun.
SkipReply ==
    /\ pc = "loop"
    /\ idx <= Len(tweets)
    /\ tweets[idx] # 0
    /\ ~AlreadyProcessed(processedTweets, tweets[idx])
    /\ \E t \in Candidates(tweets[idx]) :
        /\ IsReply(t)
        /\ ~ParentEligible(processedTweets, t)
    /\ IF dryRun
       THEN UNCHANGED <<processedTweets, file, writes>>
       ELSE /\ processedTweets' = Put(processedTweets, tweets[idx], SkipMarker)
            /\ file' = Saved(processedTweets')
            /\ writes' = [writes EXCEPT ![tweets[idx]] = @ + 1]
    /\ Continue
    /\ UNCHANGED <<loaded, tweets, dryRun, posts, runs, repeat>>
    /\ UNCHANGED <<splitVars, videoVars, itemVars, importVars, schedVars, processVars, cronVars, variantVars, accountVars, storeVars>>

\* Mutant of DryRunStops: a dry run goes on like any other run.
DryRunStopsNever(dry) == dry /\ ~dry

\* Line 1160: `if (dryRun) { ...; continue; }`
DryRunStops(dry) == dry

\* Lines 1160-1163: dryRun: the item is only logged.
DryRunItem ==
    /\ pc = "loop"
    /\ idx <= Len(tweets)
    /\ tweets[idx] # 0
    /\ ~AlreadyProcessed(processedTweets, tweets[idx])
    /\ DryRunStops(dryRun)
    /\ \E t \in Candidates(tweets[idx]) : IsReply(t) => ParentEligible(processedTweets, t)
    /\ Continue
    /\ UNCHANGED <<file, processedTweets, loaded, tweets, dryRun, posts, writes, runs,
                   repeat>>
    /\ UNCHANGED <<splitVars, videoVars, itemVars, importVars, schedVars, processVars, cronVars, variantVars, accountVars, storeVars>>

\* Lines 1139-1149, 1165-1284: the item is prepared: replyParentInfo, text,
\* chunks, lastPostInfo = replyParentInfo.
BeginItem ==
    /\ pc = "loop"
    /\ idx <= Len(tweets)
    /\ tweets[idx] # 0
    /\ ~AlreadyProcessed(processedTweets, tweets[idx])
    /\ ~DryRunStops(dryRun)
    /\ \E t \in Candidates(tweets[idx]) :
        /\ IsReply(t) => ParentEligible(processedTweets, t)
        /\ tweet' = t
        /\ chunks' = splitText(Cleanup(t.text), DefaultLimit)
        /\ lastPostInfo' = IF IsReply(t) THEN processedTweets[t.replyStatus]
                           ELSE NullEntry
    /\ ci' = 0
    /\ pc' = "posting"
    /\ UNCHANGED <<file, processedTweets, loaded, tweets, dryRun, idx, posts, writes,
                   runs, repeat>>
    /\ UNCHANGED <<splitVars, videoVars, itemVars, importVars, schedVars, processVars, cronVars, variantVars, accountVars, storeVars>>

\* The record agent.post receives for chunk ci (lines 1295-1327).
PostRecord ==
    [text |-> chunks[ci + 1], reply |-> ReplyRefs(lastPostInfo), embed |-> Embed(ci)]

\* The {uri, cid} agent.post answers with: a reference no earlier post has.
NewUri ==
    [item |-> tweet.id, chunk |-> ci,
     nth |-> 1 + Cardinality({p \in posts : /\ p.uri.item = tweet.id
                                              /\ p.uri.chunk = ci})]

Response == [uri |-> NewUri, cid |-> NewUri]

\* Mutant of Records: every chunk's post is recorded, the last one wins.
RecordsEveryChunk(i) == i >= 0

\* Line 1337: only the first chunk's post is recorded.
Records(i) == i = 0

\* Lines 1329-1347: agent.post succeeds; the first chunk is recorded and saved.
PostChunk ==
    /\ pc = "posting"
    /\ ci < Len(chunks)
    /\ LET currentPostInfo == CurrentPostInfo(Response, PostRecord.reply)
       IN /\ posts' = posts \cup {[uri |-> Response.uri, cid |-> Response.cid,
                                   reply |-> PostRecord.reply,
                                   embed |-> PostRecord.embed]}
          /\ IF Records(ci)
             THEN /\ processedTweets' = Put(processedTweets, tweet.id, currentPostInfo)
                  /\ file' = Saved(processedTweets')
                  /\ writes' = [writes EXCEPT ![tweet.id] = @ + 1]
             ELSE UNCHANGED <<processedTweets, file, writes>>
          /\ IF ci + 1 < Len(chunks)
             THEN /\ lastPostInfo' = currentPostInfo
                  /\ ci' = ci + 1
                  /\ UNCHANGED <<pc, idx, tweet, chunks>>
             ELSE Continue
    /\ UNCHANGED <<loaded, tweets, dryRun, runs, repeat>>
    /\ UNCHANGED <<splitVars, videoVars, itemVars, importVars, schedVars, processVars, cronVars, variantVars, accountVars, storeVars>>

\* Mutant of Break: `continue` in place of `break`: the chunk loop goes on with
\* the chunk after the failed one.
BreakIsContinue ==
    IF ci + 1 < Len(chunks)
    THEN /\ ci' = ci + 1
         /\ UNCHANGED <<pc, idx, tweet, chunks, lastPostInfo>>
    ELSE Continue

\* Line 1350: `break` leaves the chunk loop; lines 1354-1357 then end the
\* iteration of the item.
Break == Continue

\* Lines 1348-1351: agent.post throws: `break`, the rest of the item is dropped.
PostFails ==
    /\ pc = "posting"
    /\ ci < Len(chunks)
    /\ Break
    /\ UNCHANGED <<file, processedTweets, loaded, tweets, dryRun, posts, writes, runs,
                   repeat>>
    /\ UNCHANGED <<splitVars, videoVars, itemVars, importVars, schedVars, processVars, cronVars, variantVars, accountVars, storeVars>>

\* Line 1291: rt.detectFacets throws outside the try of line 1329: processTweets
\* rejects, the rest of the batch is left unprocessed (caught at line 1409).
DetectFacetsThrows ==
    /\ pc = "posting"
    /\ ci < Len(chunks)
    /\ pc' = "idle"
    /\ processedTweets' = << >>
    /\ loaded' = << >>
    /\ tweets' = << >>
    /\ dryRun' = FALSE
    /\ idx' = 1
    /\ repeat' = FALSE
    /\ tweet' = NoTweet
    /\ chunks' = << >>
    /\ ci' = 0
    /\ lastPostInfo' = NullEntry
    /\ UNCHANGED <<file, posts, writes, runs>>
    /\ UNCHANGED <<splitVars, videoVars, itemVars, importVars, schedVars, processVars, cronVars, variantVars, accountVars, storeVars>>

\* Line 1131: the loop is over; processTweets returns.
FinishRun ==
    /\ pc = "loop"
    /\ idx > Len(tweets)
    /\ pc' = "idle"
    /\ processedTweets' = << >>
    /\ loaded' = << >>
    /\ tweets' = << >>
    /\ dryRun' = FALSE
    /\ idx' = 1
    /\ repeat' = FALSE
    /\ UNCHANGED <<file, tweet, chunks, ci, lastPostInfo, posts, writes, runs>>
    /\ UNCHANGED <<splitVars, videoVars, itemVars, importVars, schedVars, processVars, cronVars, variantVars, accountVars, storeVars>>

\* processTweets has returned and is called again with the batch it was given
\* (in the order it was given), neither call a dry run.
RepeatRun ==
    /\ pc = "loop"
    /\ idx > Len(tweets)
    /\ tweets # << >>
    /\ ~dryRun
    /\ runs < MaxRuns
    /\ repeat' = TRUE
    /\ processedTweets' = Loaded(file)
    /\ loaded' = Loaded(file)
    /\ idx' = 1
    /\ runs' = runs + 1
    /\ UNCHANGED <<file, tweets, dryRun, pc, tweet, chunks, ci, lastPostInfo, posts,
                   writes>>
    /\ UNCHANGED <<splitVars, videoVars, itemVars, importVars, schedVars, processVars, cronVars, variantVars, accountVars, storeVars>>

\* The process is killed between two items and started again: what it held in
\* memory is gone, the history file (lines 812-819) is as it was last written.
Restart ==
    /\ pc = "loop"
    /\ runs < MaxRuns
    /\ killedWith' = file
    /\ UNCHANGED file
    /\ pc' = "idle"
    /\ processedTweets' = << >>
    /\ loaded' = << >>
    /\ tweets' = << >>
    /\ dryRun' = FALSE
    /\ idx' = 1
    /\ repeat' = FALSE
    /\ UNCHANGED <<tweet, chunks, ci, lastPostInfo, posts, writes, runs>>
    /\ UNCHANGED <<splitVars, videoVars, itemVars, importVars, schedVars, cronVars, variantVars, accountVars, storeVars>>

Next ==
    \/ StartRun
    \/ SkipKnown
    \/ SkipReply
    \/ DryRunItem
    \/ BeginItem
    \/ PostChunk
    \/ PostFails
    \/ DetectFacetsThrows
    \/ FinishRun
    \/ RepeatRun

-----------------------------------------------------------------------------
(* processTweets: the preparation of one item, entity by entity             *)
(* (index.ts 1165-1284)                                                     *)

Linked == <<"a", " ", "T">>
Long3 == [k \in 1..(2 * DefaultLimit + 1) |-> "a"]

ItemTexts == {Plain, Linked, Long3}

\* The items an id can stand for, with the texts above.
ItemsWithMedia(id) ==
    {t \in [id : {id}, replyStatus : {0, id - 1, ForeignId}, replyUser : BOOLEAN,
            text : ItemTexts] :
        t.replyStatus # 0 => t.replyUser}

\* What expandUrl (lines 893-914) can resolve a t.co link to: the link itself
\* when the request fails, or the page it redirects to: the item's video page
\* or the quoted item.
ResolvedUrls == {Tco, VideoPage, QuoteUrl}

\* The variables no step of the preparation changes.
PrepareFrame ==
    /\ UNCHANGED <<file, processedTweets, loaded, tweets, dryRun, idx, posts, writes,
                   runs, repeat>>
    /\ UNCHANGED <<splitVars, videoVars, importVars, schedVars, processVars, cronVars, variantVars, accountVars, storeVars>>

\* Lines 1131-1165, 1184-1188: the item passes the filters; its locals are set up.
TakeItem ==
    /\ pc = "loop"
    /\ idx <= Len(tweets)
    /\ tweets[idx] # 0
    /\ ~AlreadyProcessed(processedTweets, tweets[idx])
    /\ ~DryRunStops(dryRun)
    /\ \E t \in ItemsWithMedia(tweets[idx]) :
        /\ IsReply(t) => ParentEligible(processedTweets, t)
        /\ tweet' = t
        /\ text' = t.text
        /\ lastPostInfo' = IF IsReply(t) THEN processedTweets[t.replyStatus]
                           ELSE NullEntry
    /\ mediaEntities' \in MediaLists
    /\ quoted' \in {0, tweets[idx] - 1, ForeignId}
    /\ mi' = 1
    /\ images' = << >>
    /\ videoBlob' = 0
    /\ mediaLinksToRemove' = << >>
    /\ quoteEmbed' = NoRef
    /\ fetched' = {}
    /\ uploads' = << >>
    /\ tooLarge' = {}
    /\ pc' = "links"
    /\ UNCHANGED <<chunks, ci>>
    /\ PrepareFrame

\* Lines 1167-1181: link expansion; a t.co link of the text is replaced by what
\* expandUrl resolves it to.
ExpandLinks ==
    /\ pc = "links"
    /\ \E resolved \in ResolvedUrls :
        text' = IF resolved # Tco THEN ReplaceFirst(text, Tco, resolved) ELSE text
    /\ pc' = "media"
    /\ UNCHANGED <<tweet, chunks, ci, lastPostInfo, mediaEntities, mi, images, videoBlob,
                   mediaLinksToRemove, quoted, quoteEmbed, fetched, uploads, tooLarge>>
    /\ PrepareFrame

\* One iteration of the media loop (lines 1192-1251) is on entity mi.
AtMedia(type) ==
    /\ pc = "media"
    /\ mi <= Len(mediaEntities)
    /\ mediaEntities[mi].type = type
    /\ mediaLinksToRemove' = PushLinks(mediaLinksToRemove, mediaEntities[mi])
    /\ UNCHANGED <<pc, tweet, chunks, ci, lastPostInfo, mediaEntities, quoted, quoteEmbed>>
    /\ PrepareFrame

\* Line 1207: a photo without media_url_https: `continue`.
PhotoSkipped ==
    /\ AtMedia("photo")
    /\ mi' = mi + 1
    /\ UNCHANGED <<text, images, videoBlob, fetched, uploads, tooLarge>>

\* Mutant of AfterPhotoFailure: the failure ends the media loop.
AfterPhotoFailureStops(k) == Len(mediaEntities) + 1

\* Lines 1215-1217: the catch only logs; the loop goes on with the next entity.
AfterPhotoFailure(k) == k + 1

\* Lines 1208-1217: downloadMedia or uploadToBluesky throws: the photo is dropped.
PhotoFails ==
    /\ AtMedia("photo")
    /\ fetched' = fetched \cup {mi}
    /\ mi' = AfterPhotoFailure(mi)
    /\ UNCHANGED <<text, images, videoBlob, uploads, tooLarge>>

\* Lines 1208-1214: the photo is downloaded and uploaded, its blob pushed.
PhotoUploaded ==
    /\ AtMedia("photo")
    /\ fetched' = fetched \cup {mi}
    /\ images' = Append(images, mi)
    /\ mi' = mi + 1
    /\ UNCHANGED <<text, videoBlob, uploads, tooLarge>>

\* Lines 1219-1224: the video has no video/mp4 variant.
VideoNoVariant ==
    /\ AtMedia("video")
    /\ mi' = mi + 1
    /\ UNCHANGED <<text, images, videoBlob, fetched, uploads, tooLarge>>

\* Lines 1230, 1243-1247: downloadMedia throws: the fallback link.
VideoDownloadFails ==
    /\ AtMedia("video")
    /\ fetched' = fetched \cup {mi}
    /\ text' = WithFallbackLink(text)
    /\ mi' = mi + 1
    /\ UNCHANGED <<images, videoBlob, uploads, tooLarge>>

\* Lines 1230-1232, 1240-1242: the download is over the size limit: the
\* fallback link, no upload.
VideoTooLarge ==
    /\ AtMedia("video")
    /\ \E size \in Sizes : ~FitsUpload(size)
    /\ fetched' = fetched \cup {mi}
    /\ tooLarge' = tooLarge \cup {mi}
    /\ text' = WithFallbackLink(text)
    /\ mi' = mi + 1
    /\ UNCHANGED <<images, videoBlob, uploads>>

\* Lines 1232-1234, 1243-1247: uploadVideoToBluesky is called and throws: the
\* fallback link.
VideoUploadFails ==
    /\ AtMedia("video")
    /\ \E size \in Sizes :
        /\ FitsUpload(size)
        /\ uploads' = Append(uploads, [entity |-> mi, size |-> size])
    /\ fetched' = fetched \cup {mi}
    /\ text' = WithFallbackLink(text)
    /\ mi' = mi + 1
    /\ UNCHANGED <<images, videoBlob, tooLarge>>

\* Lines 1232-1237: uploadVideoToBluesky returns the blob; `break`.
VideoUploaded ==
    /\ AtMedia("video")
    /\ \E size \in Sizes :
        /\ FitsUpload(size)
        /\ uploads' = Append(uploads, [entity |-> mi, size |-> size])
    /\ fetched' = fetched \cup {mi}
    /\ videoBlob' = mi
    /\ mi' = AfterVideoUpload(mi)
    /\ UNCHANGED <<text, images, tooLarge>>

\* Line 1264: the quoted item has a posted entry of this account.
QuoteIsLocal ==
    /\ quoted # 0
    /\ Has(processedTweets, quoted)
    /\ ~processedTweets[quoted].migrated
    /\ processedTweets[quoted].uri # NoUri
    /\ processedTweets[quoted].cid # NoUri

\* Lines 1253-1278: the text that is chunked: media links removed, blank lines
\* collapsed, the link of an external quote appended.
FinalText ==
    LET cleaned == Cleanup(RemoveLinks(text, mediaLinksToRemove, 1))
    IN IF quoted # 0 /\ ~QuoteIsLocal THEN WithQuoteLink(cleaned) ELSE cleaned

\* Lines 1253-1284: the media loop is over: clean-up, quote, chunks.
PrepareChunks ==
    /\ pc = "media"
    /\ mi > Len(mediaEntities)
    /\ text' = FinalText
    /\ quoteEmbed' = IF QuoteIsLocal THEN RefOf(processedTweets[quoted]) ELSE NoRef
    /\ chunks' = splitText(FinalText, DefaultLimit)
    /\ ci' = 0
    /\ pc' = "posting"
    /\ UNCHANGED <<tweet, lastPostInfo, mediaEntities, mi, images, videoBlob,
                   mediaLinksToRemove, quoted, fetched, uploads, tooLarge>>
    /\ PrepareFrame

ItemNext ==
    \/ SkipReply
    \/ DryRunItem
    \/ TakeItem
    \/ ExpandLinks
    \/ PhotoSkipped
    \/ PhotoFails
    \/ PhotoUploaded
    \/ VideoNoVariant
    \/ VideoDownloadFails
    \/ VideoTooLarge
    \/ VideoUploadFails
    \/ VideoUploaded
    \/ PrepareChunks
    \/ PostChunk
    \/ PostFails
    \/ DetectFacetsThrows
    \/ FinishRun

-----------------------------------------------------------------------------
(* safeSearch (index.ts 1086-1112) and importHistory (index.ts 1419-1472).  *)
(* An error message is the set of the markers it contains; a search result  *)
(* lists item ids, newest first.                                            *)

MaxPage == 2

Markers == {"GraphQL", "404", "Bad Guest Token"}

Messages == SUBSET Markers

\* A TwitterSearchResult: a page of items, or a failure with its error.
Page(seq) == [success |-> TRUE, tweets |-> seq, error |-> {}]
Failure(msg) == [success |-> FALSE, tweets |-> << >>, error |-> msg]

NoFailure == [how |-> "none", message |-> {}]

\* Line 1094: the returned error is thrown again.
RethrownOnReturn(msg) == "GraphQL" \in msg \/ "404" \in msg

\* Lines 1102-1105: the caught error leads to a refresh and a retry.
RefreshOnCatch(msg) == "GraphQL" \in msg \/ "404" \in msg \/ "Bad Guest Token" \in msg

\* The newest id a search can return: the newest item of the account, or with
\* max_id in the query the item of that id or the one before it.
PageStarts(cursor) == IF cursor = 0 THEN {MaxId} ELSE {cursor, cursor - 1} \ {0}

\* The pages the source can answer a query with: up to MaxPage items from the
\* start down, or nothing.
PagesFor(cursor) ==
    {<< >>} \cup
    {Descending(IF st - k + 1 > 1 THEN st - k + 1 ELSE 1, st) :
        st \in PageStarts(cursor), k \in 1..MaxPage}

\* What client.search can return for the query.
SearchReturns(cursor) ==
    {Page(p) : p \in PagesFor(cursor)} \cup {Failure(msg) : msg \in Messages}

\* Mutant of Collect: no `break` at line 1456, the whole page is gone through.
RECURSIVE CollectWholePage(_, _, _, _, _, _, _)
CollectWholePage(page, k, map, limit, found, seen, newOnes) ==
    IF k > Len(page) THEN [found |-> found, seen |-> seen, newOnes |-> newOnes]
    ELSE IF page[k] # 0 /\ ~Has(map, page[k]) /\ page[k] \notin seen
    THEN CollectWholePage(page, k + 1, map, limit, Append(found, page[k]),
                          seen \cup {page[k]}, newOnes + 1)
    ELSE CollectWholePage(page, k + 1, map, limit, found, seen, newOnes)

\* Lines 1447-1458: the loop over the page, from position k on.
RECURSIVE Collect(_, _, _, _, _, _, _)
Collect(page, k, map, limit, found, seen, newOnes) ==
    IF k > Len(page) THEN [found |-> found, seen |-> seen, newOnes |-> newOnes]
    ELSE IF page[k] # 0 /\ ~Has(map, page[k]) /\ page[k] \notin seen
    THEN IF limit # 0 /\ Len(found) + 1 >= limit
         THEN [found |-> Append(found, page[k]), seen |-> seen \cup {page[k]},
               newOnes |-> newOnes + 1]
         ELSE Collect(page, k + 1, map, limit, Append(found, page[k]),
                      seen \cup {page[k]}, newOnes + 1)
    ELSE Collect(page, k + 1, map, limit, found, seen, newOnes)

\* Mutant of EndsFetch: a page without new item does not end the loop.
EndsFetchAtLimitOnly(newOnes, found, limit) == limit # 0 /\ Len(found) >= limit

\* Line 1460: the loop ends after this page.
EndsFetch(newOnes, found, limit) == newOnes = 0 \/ (limit # 0 /\ Len(found) >= limit)

\* importHistory and safeSearch at rest.
ImportInit ==
    /\ importPc = "done"
    /\ importLimit = 0
    /\ maxId = 0
    /\ allFoundTweets = << >>
    /\ seenIds = {}
    /\ result = Failure({})
    /\ searches = 0
    /\ refreshes = 0
    /\ firstFailure = NoFailure
    /\ calls = 0

ImportFrame ==
    /\ UNCHANGED <<importLimit>>
    /\ UNCHANGED <<splitVars, videoVars, pipeVars, itemVars, schedVars, processVars, cronVars, variantVars, accountVars, storeVars>>

\* Lines 1087-1088: no client is configured.
SearchUnconfigured ==
    /\ importPc = "fetch"
    /\ calls' = calls + 1
    /\ searches' = 0
    /\ refreshes' = 0
    /\ firstFailure' = NoFailure
    /\ result' = Failure({})
    /\ importPc' = "page"
    /\ UNCHANGED <<maxId, allFoundTweets, seenIds>>
    /\ ImportFrame

\* Lines 1091-1098 (and 1099-1110 when the returned error is thrown again):
\* the first search returns.
FirstSearchReturns ==
    /\ importPc = "fetch"
    /\ calls' = calls + 1
    /\ searches' = 1
    /\ refreshes' = 0
    /\ \E res \in SearchReturns(maxId) :
        /\ firstFailure' = IF res.success THEN NoFailure
                           ELSE [how |-> "returned", message |-> res.error]
        /\ IF ~res.success /\ res.error # {} /\ RethrownOnReturn(res.error)
           THEN IF RefreshOnCatch(res.error)
                THEN importPc' = "refresh" /\ UNCHANGED result
                ELSE importPc' = "page" /\ result' = Failure(res.error)
           ELSE importPc' = "page" /\ result' = res
    /\ UNCHANGED <<maxId, allFoundTweets, seenIds>>
    /\ ImportFrame

\* Lines 1091, 1099-1110: the first search throws.
FirstSearchThrows ==
    /\ importPc = "fetch"
    /\ calls' = calls + 1
    /\ searches' = 1
    /\ refreshes' = 0
    /\ \E msg \in Messages :
        /\ firstFailure' = [how |-> "thrown", message |-> msg]
        /\ IF RefreshOnCatch(msg)
           THEN importPc' = "refresh" /\ UNCHANGED result
           ELSE importPc' = "page" /\ result' = Failure(msg)
    /\ UNCHANGED <<maxId, allFoundTweets, seenIds>>
    /\ ImportFrame

\* Lines 1106-1108: refreshQueryIds, then the same search once more; its result
\* is returned as it is.
RefreshAndRetry ==
    /\ importPc = "refresh"
    /\ refreshes' = refreshes + 1
    /\ searches' = searches + 1
    /\ result' \in SearchReturns(maxId)
    /\ importPc' = "page"
    /\ UNCHANGED <<maxId, allFoundTweets, seenIds, firstFailure, calls>>
    /\ ImportFrame

\* Line 1108: the second search throws, outside the try: safeSearch and
\* importHistory reject.
RetryThrows ==
    /\ importPc = "refresh"
    /\ refreshes' = refreshes + 1
    /\ searches' = searches + 1
    /\ importPc' = "failed"
    /\ UNCHANGED <<maxId, allFoundTweets, seenIds, result, firstFailure, calls>>
    /\ ImportFrame

\* Lines 1445-1465: the result of safeSearch is taken: the loop ends, or the
\* new items are collected and the cursor moves to the last item of the page.
TakePage ==
    /\ importPc = "page"
    /\ IF ~result.success \/ Len(result.tweets) = 0
       THEN /\ importPc' = "done"
            /\ UNCHANGED <<maxId, allFoundTweets, seenIds>>
       ELSE LET c == Collect(result.tweets, 1, processedTweets, importLimit,
                             allFoundTweets, seenIds, 0)
            IN /\ allFoundTweets' = c.found
               /\ seenIds' = c.seen
               /\ IF EndsFetch(c.newOnes, c.found, importLimit)
                  THEN importPc' = "done" /\ UNCHANGED maxId
                  ELSE /\ importPc' = "fetch"
                       /\ maxId' = result.tweets[Len(result.tweets)]
    /\ UNCHANGED <<result, searches, refreshes, firstFailure, calls>>
    /\ ImportFrame

ImportNext ==
    \/ SearchUnconfigured
    \/ FirstSearchReturns
    \/ FirstSearchThrows
    \/ RefreshAndRetry
    \/ RetryThrows
    \/ TakePage

-----------------------------------------------------------------------------
(* The history store of the database variant (unnamed/part_000): the table  *)
(* processed_tweets with PRIMARY KEY (twitter_id, bsky_identifier), getTweet *)
(* and saveTweet.  Of the optional columns bsky_uri stands for all four.     *)

MaxTwitterId == 1

TwitterIds == 1..MaxTwitterId
BskyIdentifiers == {"A", "B"}

\* A property that is missing, and the NULL of a column.
Undefined == "(undefined)"
Null == "(null)"

\* The ProcessedTweet values saveTweet is called with (lines 38-47).
ProcessedTweets ==
    [twitter_id : TwitterIds, bsky_identifier : BskyIdentifiers,
     bsky_uri : {Undefined, "", "at://1"}, status : {"migrated", "skipped", "failed"}]

\* Lines 73-76: `tweet.bsky_uri || null`.
OrNull(v) == IF v = Undefined \/ v = "" THEN Null ELSE v

\* Lines 71-80: the row the statement is run with.
RowOf(t) ==
    [twitter_id |-> t.twitter_id, bsky_identifier |-> t.bsky_identifier,
     bsky_uri |-> OrNull(t.bsky_uri), status |-> t.status]

\* The rows of a key.
RowsAt(table, id, identifier) ==
    {r \in table : r.twitter_id = id /\ r.bsky_identifier = identifier}

\* Mutant of InsertOrReplace: a plain insert into a table without key.
InsertOnly(table, row) == table \cup {row}

\* Lines 66-70 and 30: INSERT OR REPLACE under the primary key: the rows of
\* the key are deleted, the row is inserted.
InsertOrReplace(table, row) ==
    (table \ RowsAt(table, row.twitter_id, row.bsky_identifier)) \cup {row}

\* Lines 50-63: getTweet: the first row of the key, Null without one.
GetTweet(table, id, identifier) ==
    IF RowsAt(table, id, identifier) = {} THEN Null
    ELSE LET row == CHOOSE r \in RowsAt(table, id, identifier) : TRUE
         IN [twitter_id |-> row.twitter_id, bsky_identifier |-> row.bsky_identifier,
             bsky_uri |-> row.bsky_uri, status |-> row.status]

NoCall == [called |-> FALSE, tweet |-> Null, replaced |-> FALSE]

\* Lines 14-36: the table exists and is empty.
StoreInit ==
    /\ rows = {}
    /\ lastCall = NoCall

\* Lines 65-81: saveTweet(tweet).
SaveTweet ==
    /\ \E t \in ProcessedTweets :
        /\ rows' = InsertOrReplace(rows, RowOf(t))
        /\ lastCall' = [called |-> TRUE, tweet |-> t,
                        replaced |-> RowsAt(rows, t.twitter_id, t.bsky_identifier) # {}]
    /\ UNCHANGED <<splitVars, videoVars, pipeVars, itemVars, importVars, schedVars, processVars,
                   cronVars, variantVars, accountVars>>

StoreNext == SaveTweet

-----------------------------------------------------------------------------
(* The choice of a video variant (index.ts 1219-1230; the same lines are     *)
(* exercised by Test 5 of run-tests.js, 131-150).                            *)

MaxVariants == 4
MaxBitrate == 3

Mp4 == "video/mp4"
ContentTypes == {Mp4, "audio/mp4"}

\* `bitrate` is optional: << >> is a variant without one, <<b>> one that
\* declares b.
Bitrates == {<< >>} \cup {<<b>> : b \in 0..MaxBitrate}

VariantKinds == [content_type : ContentTypes, bitrate : Bitrates]

\* A variant's url is told apart by its position in the input.
WithUrls(l) ==
    [i \in 1..Len(l) |-> [content_type |-> l[i].content_type,
                          bitrate |-> l[i].bitrate,
                          url |-> i]]

\* Line 1219: `media.video_info?.variants || []`.
VariantLists ==
    {WithUrls(l) : l \in UNION {[1..n -> VariantKinds] : n \in 0..MaxVariants}}

\* `v.bitrate || 0`: a missing bitrate and a bitrate of 0 are both 0.
BitrateOr0(v) ==
    IF v.bitrate = << >> THEN 0
    ELSE IF v.bitrate[1] = 0 THEN 0 ELSE v.bitrate[1]

CompareAscending(a, b) == BitrateOr0(a) - BitrateOr0(b)

\* Line 1222: the comparator, negative when a goes first.
Compare(a, b) == BitrateOr0(b) - BitrateOr0(a)

\* Array.prototype.sort is stable: an element goes after every element that
\* the comparator does not put behind it.
RECURSIVE InsertVariant(_, _)
InsertVariant(sorted, v) ==
    IF sorted = << >> THEN <<v>>
    ELSE IF Compare(Head(sorted), v) <= 0
         THEN <<Head(sorted)>> \o InsertVariant(Tail(sorted), v)
         ELSE <<v>> \o sorted

RECURSIVE SortVariants(_)
SortVariants(s) ==
    IF s = << >> THEN << >>
    ELSE InsertVariant(SortVariants(SubSeq(s, 1, Len(s) - 1)), s[Len(s)])

IsMp4(v) == v.content_type = Mp4

\* Lines 1220-1222.
Mp4s(vs) == SortVariants(SelectSeq(vs, IsMp4))

VariantInit ==
    /\ variants = << >>
    /\ mp4s = << >>
    /\ downloads = << >>
    /\ selPc = "entity"

VariantFrame ==
    UNCHANGED <<splitVars, videoVars, pipeVars, itemVars, importVars, schedVars, processVars,
                cronVars, accountVars, storeVars>>

\* Lines 1219-1222.
FilterAndSort ==
    /\ selPc = "entity"
    /\ mp4s' = Mp4s(variants)
    /\ selPc' = "sorted"
    /\ UNCHANGED <<variants, downloads>>
    /\ VariantFrame

\* Lines 1224-1230: the first of the sorted MP4 variants is downloaded.
DownloadFirstVariant ==
    /\ selPc = "sorted"
    /\ Len(mp4s) > 0
    /\ downloads' = Append(downloads, mp4s[1].url)
    /\ selPc' = "done"
    /\ UNCHANGED <<variants, mp4s>>
    /\ VariantFrame

\* Line 1224, false: the entity is passed over.
NoMp4Variant ==
    /\ selPc = "sorted"
    /\ Len(mp4s) = 0
    /\ selPc' = "done"
    /\ UNCHANGED <<variants, mp4s, downloads>>
    /\ VariantFrame

VariantNext ==
    \/ FilterAndSort
    \/ DownloadFirstVariant
    \/ NoMp4Variant

-----------------------------------------------------------------------------
(* The single-account variant (index.ts 1-671): checkAndPost (540-561) is    *)
(* called once by main and then by cron.schedule (668-670), which does not   *)
(* wait for the call before it; processTweets (340-537) works on the         *)
(* module-level processedTweets (136).                                       *)

\* The checkAndPost calls that can be under way: the one of an earlier and
\* the one of a later cron tick.
Calls == {"earlier", "later"}

NoCheck == [pc |-> "idle", at |-> 1]

\* What safeSearch returns to every call: the recent items, reversed at 342.
RecentBatch == Reverse(Descending(1, MaxId))

CronInit ==
    /\ checks = [c \in Calls |-> NoCheck]
    /\ processedShared = {}
    /\ cronPosts = [id \in Ids |-> 0]

CronFrame ==
    UNCHANGED <<splitVars, videoVars, pipeVars, itemVars, importVars, schedVars, processVars,
                variantVars, accountVars, storeVars>>

\* Lines 668-670 (and 665): the tick calls checkAndPost and does not await it;
\* the call goes up to the loop of processTweets.
CronFires(c) ==
    /\ checks[c].pc = "idle"
    /\ checks' = [checks EXCEPT ![c] = [pc |-> "loop", at |-> 1]]
    /\ UNCHANGED <<processedShared, cronPosts>>
    /\ CronFrame

\* Lines 345-349: the item has an entry: continue.
CheckSkips(c) ==
    /\ checks[c].pc = "loop"
    /\ checks[c].at <= Len(RecentBatch)
    /\ RecentBatch[checks[c].at] \in processedShared
    /\ checks' = [checks EXCEPT ![c].at = @ + 1]
    /\ UNCHANGED <<processedShared, cronPosts>>
    /\ CronFrame

\* Lines 345-349 and 374-530: the item has no entry: it is prepared, up to the
\* call of agent.post (531), which is awaited.
CheckBegins(c) ==
    /\ checks[c].pc = "loop"
    /\ checks[c].at <= Len(RecentBatch)
    /\ RecentBatch[checks[c].at] \notin processedShared
    /\ checks' = [checks EXCEPT ![c].pc = "item"]
    /\ UNCHANGED <<processedShared, cronPosts>>
    /\ CronFrame

\* Lines 531-547: agent.post has answered; the entry is assigned and saved.
CheckPosts(c) ==
    /\ checks[c].pc = "item"
    /\ cronPosts' = [cronPosts EXCEPT ![RecentBatch[checks[c].at]] = @ + 1]
    /\ processedShared' = processedShared \cup {RecentBatch[checks[c].at]}
    /\ checks' = [checks EXCEPT ![c] = [pc |-> "loop", at |-> @.at + 1]]
    /\ CronFrame

\* Lines 548-550: agent.post has thrown; the item is left without entry.
CheckPostFails(c) ==
    /\ checks[c].pc = "item"
    /\ checks' = [checks EXCEPT ![c] = [pc |-> "loop", at |-> @.at + 1]]
    /\ UNCHANGED <<processedShared, cronPosts>>
    /\ CronFrame

\* Lines 344 and 557: the loop is over; checkAndPost returns.
CheckReturns(c) ==
    /\ checks[c].pc = "loop"
    /\ checks[c].at > Len(RecentBatch)
    /\ checks' = [checks EXCEPT ![c] = NoCheck]
    /\ UNCHANGED <<processedShared, cronPosts>>
    /\ CronFrame

CronNext ==
    \E c \in Calls :
        \/ CronFires(c)
        \/ CheckSkips(c)
        \/ CheckBegins(c)
        \/ CheckPosts(c)
        \/ CheckPostFails(c)
        \/ CheckReturns(c)

-----------------------------------------------------------------------------
(* The scheduler: the main loop (index.ts 1523-1543), checkAndPost (index.ts *)
(* 1383-1417), requestBackfill of the web client (App.tsx 506-540) and the   *)
(* queue of pending backfill requests, which server.js keeps (imported at    *)
(* index.ts 1474).                                                           *)

MaxRequestLimit == 1

\* config.mappings, in the order of the configuration, by mapping id.
Mappings == <<"a", "b">>

MappingIds == {Mappings[k] : k \in DOMAIN Mappings}

\* App.tsx 521: the default of the prompt, also taken for an unusable input.
PromptDefault == 15

\* index.ts 1399: the limit of a backfill without a limit of its own.
FallbackLimit == 100

\* index.ts 1405: the window of the incremental check.
RecentWindow == 30

\* App.tsx 526: what Number.parseInt makes of the prompt's input.
ParsedInputs ==
    {[finite |-> FALSE, value |-> 0]} \cup
    {[finite |-> TRUE, value |-> v] : v \in -1..MaxRequestLimit}

\* App.tsx 527
SafeLimit(parsed) ==
    IF parsed.finite /\ parsed.value > 0 THEN parsed.value ELSE PromptDefault

\* A queue without the requests of one mapping.
Without(queue, id) == SelectSeq(queue, LAMBDA b : b.id # id)

\* Mutant of Enqueue: the request is added at the end.
EnqueueAppends(queue, id, limit) == Append(queue, [id |-> id, limit |-> limit])

\* The server takes a request: it replaces the pending request of the mapping.
Enqueue(queue, id, limit) == Append(Without(queue, id), [id |-> id, limit |-> limit])

\* clearBackfill(id)
ClearBackfill(queue, id) == Without(queue, id)

\* getPendingBackfills()
GetPendingBackfills == backfillQueue

\* pendingBackfills.find(b => b.id === id) (line 1397); NoRequest for undefined.
NoRequest == [id |-> "", limit |-> 0]

RECURSIVE Find(_, _, _)
Find(queue, id, k) ==
    IF k > Len(queue) THEN NoRequest
    ELSE IF queue[k].id = id THEN queue[k]
    ELSE Find(queue, id, k + 1)

\* The number of requests a queue holds for a mapping.
Requests(queue, id) == Cardinality({k \in DOMAIN queue : queue[k].id = id})

NotServed == [id |-> "", kind |-> "none", limit |-> 0, request |-> 0, queued |-> FALSE]

\* The scheduler asleep, nothing queued; the process has not been killed.
SchedInit ==
    /\ killedWith = << >>
    /\ CronInit
    /\ VariantInit
    /\ backfillQueue = << >>
    /\ replaced = FALSE
    /\ schedPc = "sleep"
    /\ pendingBackfills = << >>
    /\ forceBackfill = FALSE
    /\ mappingIdx = 1
    /\ enabled = [id \in MappingIds |-> TRUE]
    /\ lastServed = NotServed
    /\ activeAgents = {}
    /\ logins = [id \in MappingIds |-> 0]

SchedFrame == UNCHANGED <<splitVars, videoVars, pipeVars, itemVars, importVars, processVars, cronVars, variantVars, accountVars, storeVars>>

\* App.tsx 506-540 and the server's handler of POST /api/backfill/:id: the
\* user asks for a backfill of one mapping.
RequestBackfill ==
    /\ \E id \in MappingIds, parsed \in ParsedInputs :
        /\ backfillQueue' = Enqueue(backfillQueue, id, SafeLimit(parsed))
        /\ replaced' = (Requests(backfillQueue, id) > 0)
    /\ UNCHANGED <<schedPc, pendingBackfills, forceBackfill, mappingIdx, enabled,
                   activeAgents, logins, lastServed>>
    /\ SchedFrame

\* App.tsx 487-504 and the server's handler of POST /api/backfill/clear-all.
ClearAllBackfills ==
    /\ backfillQueue # << >>
    /\ backfillQueue' = << >>
    /\ UNCHANGED <<replaced, schedPc, pendingBackfills, forceBackfill, mappingIdx,
                   enabled, activeAgents, logins, lastServed>>
    /\ SchedFrame

\* Lines 1527-1533 and 1383-1389: the check is due, and a client or a queued
\* backfill makes checkAndPost begin; it reads the queue once.
Tick ==
    /\ schedPc = "sleep"
    /\ \E client \in BOOLEAN :
        /\ client \/ Len(GetPendingBackfills) > 0
        /\ forceBackfill' = (Len(GetPendingBackfills) > 0)
    /\ pendingBackfills' = GetPendingBackfills
    /\ mappingIdx' = 1
    /\ lastServed' = NotServed
    /\ schedPc' = "check"
    /\ logins' = [id \in MappingIds |-> 0]
    /\ UNCHANGED <<backfillQueue, replaced, enabled, activeAgents>>
    /\ SchedFrame

\* The loop of checkAndPost is at a mapping.
AtMapping ==
    /\ schedPc = "check"
    /\ mappingIdx <= Len(Mappings)

\* The loop goes on to the next mapping.
NextMapping ==
    /\ mappingIdx' = mappingIdx + 1
    /\ schedPc' = "check"

\* Line 1392: the mapping is disabled.
MappingDisabled ==
    /\ AtMapping
    /\ ~enabled[Mappings[mappingIdx]]
    /\ NextMapping
    /\ UNCHANGED <<backfillQueue, replaced, pendingBackfills, forceBackfill, enabled,
                   activeAgents, logins, lastServed>>
    /\ SchedFrame

\* Mutant of AfterLoginFailure: the failure ends the loop over the mappings.
AfterLoginFailureReturns(k) == Len(Mappings) + 1

\* Line 1395: `if (!agent) continue;`
AfterLoginFailure(k) == k + 1

\* Lines 1394-1395 and 1369-1380: no agent is cached for the mapping and
\* agent.login fails: getAgent returns null.  (Each mapping has a destination
\* account of its own, so the cache key is the mapping's.)
LoginFails ==
    /\ AtMapping
    /\ enabled[Mappings[mappingIdx]]
    /\ Mappings[mappingIdx] \notin activeAgents
    /\ logins' = [logins EXCEPT ![Mappings[mappingIdx]] = @ + 1]
    /\ mappingIdx' = AfterLoginFailure(mappingIdx)
    /\ schedPc' = "check"
    /\ UNCHANGED <<backfillQueue, replaced, pendingBackfills, forceBackfill, enabled,
                   activeAgents, lastServed>>
    /\ SchedFrame

\* Lines 1369-1376: getAgent returns the cached agent, or logs in and caches
\* the agent.
GetAgent(id) ==
    /\ activeAgents' = activeAgents \cup {id}
    /\ logins' = IF id \in activeAgents THEN logins
                 ELSE [logins EXCEPT ![id] = @ + 1]

\* Lines 1397-1401: importHistory is called for the mapping.
Backfill ==
    /\ AtMapping
    /\ enabled[Mappings[mappingIdx]]
    /\ GetAgent(Mappings[mappingIdx])
    /\ LET id == Mappings[mappingIdx]
           backfillReq == Find(pendingBackfills, id, 1)
       IN /\ forceBackfill \/ backfillReq # NoRequest
          /\ lastServed' = [id |-> id, kind |-> "backfill",
                            limit |-> IF backfillReq.limit # 0 THEN backfillReq.limit
                                      ELSE FallbackLimit,
                            request |-> backfillReq.limit,
                            queued |-> Requests(backfillQueue, id) > 0]
    /\ schedPc' = "backfilling"
    /\ UNCHANGED <<backfillQueue, replaced, pendingBackfills, forceBackfill, mappingIdx, enabled>>
    /\ SchedFrame

\* Lines 1401-1403: importHistory has returned; the request is cleared.
BackfillReturns ==
    /\ schedPc = "backfilling"
    /\ backfillQueue' = ClearBackfill(backfillQueue, Mappings[mappingIdx])
    /\ NextMapping
    /\ UNCHANGED <<replaced, pendingBackfills, forceBackfill, enabled, activeAgents, logins,
                   lastServed>>
    /\ SchedFrame

\* Lines 1401 and 1409-1411: importHistory has thrown; nothing is cleared.
BackfillThrows ==
    /\ schedPc = "backfilling"
    /\ NextMapping
    /\ UNCHANGED <<backfillQueue, replaced, pendingBackfills, forceBackfill, enabled,
                   activeAgents, logins, lastServed>>
    /\ SchedFrame

\* Lines 1404-1408: the incremental check of the mapping, whatever its outcome.
Incremental ==
    /\ AtMapping
    /\ enabled[Mappings[mappingIdx]]
    /\ GetAgent(Mappings[mappingIdx])
    /\ LET id == Mappings[mappingIdx]
           backfillReq == Find(pendingBackfills, id, 1)
       IN /\ ~(forceBackfill \/ backfillReq # NoRequest)
          /\ lastServed' = [id |-> id, kind |-> "incremental", limit |-> RecentWindow,
                            request |-> backfillReq.limit,
                            queued |-> Requests(backfillQueue, id) > 0]
    /\ NextMapping
    /\ UNCHANGED <<backfillQueue, replaced, pendingBackfills, forceBackfill, enabled>>
    /\ SchedFrame

\* Lines 1414-1416 and 1541: the loop is over; the scheduler sleeps.
EndCheck ==
    /\ schedPc = "check"
    /\ mappingIdx > Len(Mappings)
    /\ schedPc' = "sleep"
    /\ UNCHANGED <<backfillQueue, replaced, pendingBackfills, forceBackfill, mappingIdx,
                   enabled, activeAgents, logins, lastServed>>
    /\ SchedFrame

SchedNext ==
    \/ RequestBackfill
    \/ ClearAllBackfills
    \/ Tick
    \/ MappingDisabled
    \/ LoginFails
    \/ Backfill
    \/ BackfillReturns
    \/ BackfillThrows
    \/ Incremental
    \/ EndCheck

-----------------------------------------------------------------------------
(* Specifications *)

\* splitText alone
SplitStart ==
    /\ AccountInit
    /\ StoreInit
    /\ SchedInit
    /\ SplitInit
    /\ ImportInit
    /\ ItemInit
    /\ VideoInit
    /\ PipeInit
    /\ file = << >>

SplitNext == CallSplitText

SpecSplit == SplitStart /\ [][SplitNext]_vars

\* splitText statement by statement, from the same inputs
SpecSplitLoop == SplitStart /\ [][SplitLoopNext]_vars

\* uploadVideoToBluesky alone
VideoStart ==
    /\ AccountInit
    /\ StoreInit
    /\ SchedInit
    /\ VideoInit
    /\ ImportInit
    /\ ItemInit
    /\ PipeInit
    /\ file = << >>
    /\ sText = << >>
    /\ sLimit = DefaultLimit
    /\ sChunks = << >>
    /\ sPc = "input"
    /\ sRemaining = << >>

SpecVideo == VideoStart /\ [][VideoNext]_vars

\* processTweets, run after run on one history file
PipeStart ==
    /\ AccountInit
    /\ StoreInit
    /\ SchedInit
    /\ PipeInit
    /\ ImportInit
    /\ ItemInit
    /\ VideoInit
    /\ sText = << >>
    /\ sLimit = DefaultLimit
    /\ sChunks = << >>
    /\ sPc = "input"
    /\ sRemaining = << >>

Spec == PipeStart /\ [][Next]_vars

\* processTweets, run after run, on an account whose items form one thread
ThreadStart ==
    /\ account = "thread"
    /\ StoreInit
    /\ SchedInit
    /\ PipeInit
    /\ ImportInit
    /\ ItemInit
    /\ VideoInit
    /\ sText = << >>
    /\ sLimit = DefaultLimit
    /\ sChunks = << >>
    /\ sPc = "input"
    /\ sRemaining = << >>

SpecThread == ThreadStart /\ [][Next]_vars

\* processTweets, run after run, in a process that can be killed between items
SpecRestart == PipeStart /\ [][Next \/ Restart]_vars

\* The history a run on one item starts from: a top-level post of item 1
\* followed by item 2, a reply threaded to it or a skipped reply.
HistoryTop == CurrentPostInfo([uri |-> [item |-> 1, chunk |-> 0, nth |-> 1],
                               cid |-> [item |-> 1, chunk |-> 0, nth |-> 1]], NoReply)

HistoryReply == CurrentPostInfo([uri |-> [item |-> 2, chunk |-> 0, nth |-> 1],
                                 cid |-> [item |-> 2, chunk |-> 0, nth |-> 1]],
                                ReplyRefs(HistoryTop))

ItemHistories == {<<HistoryTop, HistoryReply>>, <<HistoryTop, SkipMarker>>}

\* The posts the posted entries of a history stand for.
HistoryPosts(h) ==
    {[uri |-> h[id].uri, cid |-> h[id].cid,
      reply |-> IF h[id].root = RefOf(h[id]) THEN NoReply
                ELSE [root |-> h[id].root, parent |-> RefOf(h[id - 1])],
      embed |-> NoEmbed] : id \in {k \in DOMAIN h : h[k].uri # NoUri}}

\* processTweets on one new item: a run, dry or not, has loaded the history and
\* is at the item, the next id of the account.
ItemStart ==
    /\ AccountInit
    /\ StoreInit
    /\ SchedInit
    /\ VideoInit
    /\ ImportInit
    /\ ItemInit
    /\ sText = << >>
    /\ sLimit = DefaultLimit
    /\ sChunks = << >>
    /\ sPc = "input"
    /\ sRemaining = << >>
    /\ file \in ItemHistories
    /\ processedTweets = Loaded(file)
    /\ loaded = Loaded(file)
    /\ tweets = <<Len(file) + 1>>
    /\ dryRun \in BOOLEAN
    /\ idx = 1
    /\ pc = "loop"
    /\ tweet = NoTweet
    /\ chunks = << >>
    /\ ci = 0
    /\ lastPostInfo = NullEntry
    /\ posts = HistoryPosts(file)
    /\ writes = [id \in Ids |-> IF id \in DOMAIN file THEN 1 ELSE 0]
    /\ runs = 1
    /\ repeat = FALSE

SpecItem == ItemStart /\ [][ItemNext]_vars

\* importHistory (lines 1432-1436): the history is loaded, with entries for
\* some of the account's items, and the fetch loop begins.
ImportStart ==
    /\ AccountInit
    /\ StoreInit
    /\ SchedInit
    /\ VideoInit
    /\ ItemInit
    /\ sText = << >>
    /\ sLimit = DefaultLimit
    /\ sChunks = << >>
    /\ sPc = "input"
    /\ sRemaining = << >>
    /\ \E S \in SUBSET Ids : file = [id \in S |-> SkipMarker]
    /\ processedTweets = Loaded(file)
    /\ loaded = Loaded(file)
    /\ tweets = << >>
    /\ dryRun = FALSE
    /\ idx = 1
    /\ pc = "idle"
    /\ tweet = NoTweet
    /\ chunks = << >>
    /\ ci = 0
    /\ lastPostInfo = NullEntry
    /\ posts = {}
    /\ writes = [id \in Ids |-> 0]
    /\ runs = 0
    /\ repeat = FALSE
    /\ importPc = "fetch"
    /\ importLimit \in 0..MaxId
    /\ maxId = 0
    /\ allFoundTweets = << >>
    /\ seenIds = {}
    /\ result = Failure({})
    /\ searches = 0
    /\ refreshes = 0
    /\ firstFailure = NoFailure
    /\ calls = 0

SpecImport == ImportStart /\ [][ImportNext]_vars

\* The scheduler with its configuration: each mapping enabled or not.
SchedStart ==
    /\ AccountInit
    /\ StoreInit
    /\ VideoInit
    /\ ItemInit
    /\ ImportInit
    /\ sText = << >>
    /\ sLimit = DefaultLimit
    /\ sChunks = << >>
    /\ sPc = "input"
    /\ sRemaining = << >>
    /\ file = << >>
    /\ processedTweets = Loaded(file)
    /\ loaded = Loaded(file)
    /\ tweets = << >>
    /\ dryRun = FALSE
    /\ idx = 1
    /\ pc = "idle"
    /\ tweet = NoTweet
    /\ chunks = << >>
    /\ ci = 0
    /\ lastPostInfo = NullEntry
    /\ posts = {}
    /\ writes = [id \in Ids |-> 0]
    /\ runs = 0
    /\ repeat = FALSE
    /\ backfillQueue = << >>
    /\ replaced = FALSE
    /\ schedPc = "sleep"
    /\ pendingBackfills = << >>
    /\ forceBackfill = FALSE
    /\ mappingIdx = 1
    /\ enabled \in [MappingIds -> BOOLEAN]
    /\ lastServed = NotServed
    /\ activeAgents = {}
    /\ logins = [id \in MappingIds |-> 0]
    /\ killedWith = << >>
    /\ CronInit
    /\ VariantInit

SpecSched == SchedStart /\ [][SchedNext]_vars

\* The loop of checkAndPost is at the mapping id.
MappingAt(id) == mappingIdx <= Len(Mappings) /\ Mappings[mappingIdx] = id

\* The scheduler under the assumptions most favourable to it: the main loop
\* (1523-1542) keeps running, so a due check begins, the loop over the
\* mappings moves on and a backfill that has begun ends; and the environment
\* is not hostile for ever: for each mapping, a login that is tried again and
\* again succeeds at some time, and so does an import.
FairSched ==
    /\ SpecSched
    /\ WF_vars(Tick)
    /\ WF_vars(MappingDisabled)
    /\ WF_vars(LoginFails \/ Backfill \/ Incremental)
    /\ WF_vars(BackfillReturns \/ BackfillThrows)
    /\ WF_vars(EndCheck)
    /\ \A id \in MappingIds :
          /\ SF_vars((Backfill \/ Incremental) /\ MappingAt(id))
          /\ SF_vars(BackfillReturns /\ MappingAt(id))

\* The cron-scheduled checks of the single-account variant; everything else
\* at rest.
CronStart ==
    /\ AccountInit
    /\ StoreInit
    /\ VideoInit
    /\ PipeInit
    /\ ItemInit
    /\ ImportInit
    /\ SchedInit
    /\ file = << >>
    /\ sText = << >>
    /\ sLimit = DefaultLimit
    /\ sChunks = << >>
    /\ sPc = "input"
    /\ sRemaining = << >>

SpecCron == CronStart /\ [][CronNext]_vars

\* The history store, from the empty table; everything else at rest.
StoreStart == CronStart

SpecStore == StoreStart /\ [][StoreNext]_vars

\* One video entity with any list of variants; everything else at rest.
VariantStart ==
    /\ AccountInit
    /\ StoreInit
    /\ VideoInit
    /\ PipeInit
    /\ ItemInit
    /\ ImportInit
    /\ killedWith = << >>
    /\ CronInit
    /\ backfillQueue = << >>
    /\ replaced = FALSE
    /\ schedPc = "sleep"
    /\ pendingBackfills = << >>
    /\ forceBackfill = FALSE
    /\ mappingIdx = 1
    /\ enabled = [id \in MappingIds |-> TRUE]
    /\ lastServed = NotServed
    /\ activeAgents = {}
    /\ logins = [id \in MappingIds |-> 0]
    /\ file = << >>
    /\ sText = << >>
    /\ sLimit = DefaultLimit
    /\ sChunks = << >>
    /\ sPc = "input"
    /\ sRemaining = << >>
    /\ variants \in VariantLists
    /\ mp4s = << >>
    /\ downloads = << >>
    /\ selPc = "entity"

SpecVariants == VariantStart /\ [][VariantNext]_vars

-----------------------------------------------------------------------------
(* Properties of splitText, checked under SpecSplit *)

RECURSIVE Flatten(_)
Flatten(seqs) == IF seqs = << >> THEN << >> ELSE Head(seqs) \o Flatten(Tail(seqs))

\* A text with every whitespace character removed.
StripWhitespace(str) == SelectSeq(str, LAMBDA c : ~IsWhitespace(c))

\* C6: every segment splitText(text, L) returns has length <= L, for every text
\* and every L >= 1.
C6_ChunkLengthBound ==
    sPc = "done" => \A k \in 1..Len(sChunks) : Len(sChunks[k]) <= sLimit

C8_ChunkCoverage ==
    sPc = "done" => StripWhitespace(Flatten(sChunks)) = StripWhitespace(sText)

\* A text of letters, a period and whitespace was cut into three segments.
C8_Witness ==
    /\ sPc = "done"
    /\ Len(sChunks) >= 3
    /\ \E k \in 1..Len(sText) : sText[k] = "."
    /\ \E k \in 1..Len(sText) : IsWhitespace(sText[k])

\* The 0-based positions k <= limit at which pat stands in str.
BreaksUpTo(str, pat, limit) ==
    {k \in 0..limit : /\ k + Len(pat) <= Len(str)
                      /\ \A i \in 1..Len(pat) : str[k + i] = pat[i]}

Latest(S) == CHOOSE k \in S : \A j \in S : j <= k

\* The place of a cut as the order of preference gives it.
PreferredCut(str, limit) ==
    IF BreaksUpTo(str, ParagraphBreak, limit) # {}
    THEN Latest(BreaksUpTo(str, ParagraphBreak, limit))
    ELSE IF BreaksUpTo(str, SentenceBreak, limit) # {}
    THEN Latest(BreaksUpTo(str, SentenceBreak, limit)) + 1
    ELSE IF BreaksUpTo(str, Space, limit) # {}
    THEN Latest(BreaksUpTo(str, Space, limit))
    ELSE limit

\* C31: every cut of a text longer than L falls at the last paragraph break
\* at or before position L if there is one, otherwise just after the period of
\* the last ". " at or before L, otherwise at the last space at or before L,
\* otherwise at L; the segment before the cut is pushed trimmed, and the loop
\* goes on with the trimmed text after the cut.
C31_BoundaryPreference ==
    [][(sPc = "loop" /\ Len(sRemaining) > sLimit)
          => LET cut == PreferredCut(sRemaining, sLimit)
             IN /\ sChunks' = Append(sChunks, Trim(SubSeq(sRemaining, 1, cut)))
                /\ sRemaining' = Trim(SubSeq(sRemaining, cut + 1, Len(sRemaining)))]_vars

\* C31 witness: a paragraph break at position 1 and a sentence break at
\* position 3, both within L = 3: the cut was made at the paragraph break.
C31_Witness ==
    /\ sPc = "loop"
    /\ sLimit = 3
    /\ sText = <<"a", "\n", "\n", ".", " ", "a">>
    /\ sChunks = << <<"a">> >>
    /\ sRemaining = <<".", " ", "a">>

\* C32: a text of length at most L comes back as one segment, equal to the
\* text, whitespace included.
C32_ShortTextIsOneSegment ==
    (sPc = "done" /\ Len(sText) <= sLimit) => sChunks = <<sText>>

\* C32 witness: a text of length L that begins and ends with whitespace came
\* back as it was.
C32_Witness ==
    /\ sPc = "done"
    /\ sLimit = 3
    /\ sText = <<" ", "a", "\n">>
    /\ sChunks = <<sText>>

\* C38: splitText terminates for every text and every L >= 1: every
\* iteration of the loop either returns or leaves a strictly shorter remaining
\* text, so that the segments pushed so far never outnumber the characters
\* taken off the text.
C38_SplitTextTerminates ==
    /\ [](sPc = "loop" => Len(sChunks) + Len(sRemaining) <= Len(sText))
    /\ [][sPc = "loop" => (sPc' = "done" \/ Len(sRemaining') < Len(sRemaining))]_vars

\* C38 witness: a text that begins with a space, with L = 1: the first cut
\* was made at position 0 and pushed an empty segment, and the call returned.
C38_Witness ==
    /\ sPc = "done"
    /\ sLimit = 1
    /\ sText = <<" ", "a", "a">>
    /\ sChunks = << << >>, <<"a">>, <<"a">> >>

-----------------------------------------------------------------------------
(* Properties of uploadVideoToBluesky, checked under SpecVideo *)

\* C9: the poll loop ends after a bounded number of attempts whatever the poll
\* outcomes are, failed status requests included: they count against the same
\* ceiling, so no more than PollCeiling + 1 status requests are ever issued.
C9_BoundedPolling == attempts <= PollCeiling + 1

\* C10: a response that carries a ready blob reference ends the call with that
\* reference as its result, whichever attempt it arrives on.
C10_ReadyBlobIsReturned ==
    lastBlob # 0 => (vPc = "success" /\ blob = lastBlob)

\* C39: while every status response is ok and in a state still processing,
\* the poll loop issues its 61st status request and then raises the timeout
\* error: it polls on up to the 60th response, times out only on the 61st,
\* and issues no 62nd request.
C39_PollAttemptCeiling ==
    allPending =>
        /\ attempts <= PollCeiling + 1
        /\ vPc = "poll" => attempts <= PollCeiling
        /\ vPc = "timeout" => attempts = PollCeiling + 1
        /\ attempts > 0 => vPc \in {"poll", "timeout"}

\* C39 witness: 61 status requests, all answered "still processing", and the
\* call has timed out.
C39_Witness ==
    /\ allPending
    /\ vPc = "timeout"
    /\ attempts = PollCeiling + 1

-----------------------------------------------------------------------------
(* Properties of processTweets, checked under Spec *)

\* The posts a step creates.
NewPosts == posts' \ posts

\* The run has gone through its whole batch.
RunOver == pc = "loop" /\ idx > Len(tweets)

\* C1: a second processTweets run on the same batch (neither run a dry run)
\* creates no destination post, and leaves a history entry for every item.
C1_SecondRunCreatesNoPost ==
    [][repeat => /\ posts' = posts
                 /\ RunOver' => \A k \in 1..Len(tweets) : Has(file', tweets[k])]_vars

\* C1 as amended: a second run on the same batch creates no destination post
\* for any item that has a history entry when that run starts and leaves that
\* entry as it was; no item id is ever saved twice.  (An item whose first-chunk
\* post failed in the first run has no entry and is posted by the second run.)
C1_Idempotence ==
    [][(repeat /\ repeat') =>
          \A k \in 1..Len(tweets) :
              Has(loaded, tweets[k]) =>
                  /\ \A p \in NewPosts : p.uri.item # tweets[k]
                  /\ Has(file', tweets[k])
                  /\ file'[tweets[k]] = loaded[tweets[k]]
                  /\ writes'[tweets[k]] <= 1]_vars

\* A second run on the same batch is over; the first run had left a posted
\* entry for one item of the batch and a skip marker for another.
C1_Witness ==
    /\ repeat
    /\ RunOver
    /\ \E j, k \in 1..Len(tweets) :
        /\ Has(loaded, tweets[j]) /\ loaded[tweets[j]].uri # NoUri
        /\ Has(loaded, tweets[k]) /\ loaded[tweets[k]].skipped

\* C2: once an item id has a history entry, the entry is never changed and the
\* id never saved again; processTweets passes over the item as soon as the loop
\* reaches it, with no post and no write; a first chunk is posted only for an
\* item without entry.
C2_EntryIsFinal ==
    [][/\ \A id \in DOMAIN file : Has(file', id) /\ file'[id] = file[id]
       /\ \A id \in Ids : writes'[id] <= 1
       /\ (pc = "loop" /\ idx <= Len(tweets) /\ Has(file, tweets[idx]))
             => /\ pc' = "loop" /\ idx' = idx + 1
                /\ posts' = posts /\ file' = file /\ writes' = writes
       /\ \A p \in NewPosts : p.uri.chunk = 0 => ~Has(file, p.uri.item)]_vars

\* In a later run the loop has passed over three recorded items: a
\* legacy-migrated one, a skipped one and a posted one.
C2_Witness ==
    /\ runs >= 2
    /\ RunOver
    /\ \E i, j, k \in 1..Len(tweets) :
        /\ Has(loaded, tweets[i]) /\ loaded[tweets[i]].migrated
        /\ Has(loaded, tweets[j]) /\ loaded[tweets[j]].skipped
        /\ Has(loaded, tweets[k]) /\ loaded[tweets[k]].uri # NoUri

\* The item is a reply by any of the three signs of line 1142.
C3_ClassifiedAsReply(t) ==
    \/ t.replyStatus # 0
    \/ t.replyUser
    \/ (Trim(t.text) # << >> /\ Head(Trim(t.text)) = "@")

\* C3: an item classified as a reply never results in a top-level post: its
\* first chunk is posted only as a reply to its parent's post (and when the
\* parent's entry is a skip marker or a marker without references, the item is
\* not posted at all).
C3_ReplyNeverTopLevel ==
    [][\A p \in NewPosts :
          (p.uri.chunk = 0 /\ C3_ClassifiedAsReply(tweet)) => p.reply # NoReply]_vars

\* C4: in a run that is not a dry run, a reply whose reply-to id has no history
\* entry, or which has no reply-to id, is never prepared for posting: the loop
\* leaves a skip marker for it, and from then on the marker stays and no post is
\* created for the item, in this run or a later one.
C4_ReplyToUnknownIsSkipped ==
    [][/\ (pc = "loop" /\ pc' = "posting" /\ C3_ClassifiedAsReply(tweet'))
             => /\ tweet'.replyStatus # 0
                /\ Has(file, tweet'.replyStatus)
       /\ (pc = "loop" /\ pc' = "loop" /\ idx' = idx + 1 /\ ~dryRun
           /\ ~Has(file, tweets[idx]))
             => /\ Has(file', tweets[idx])
                /\ file'[tweets[idx]] = SkipMarker
                /\ posts' = posts
       /\ \A id \in DOMAIN file :
             file[id].skipped
                 => /\ Has(file', id) /\ file'[id] = file[id]
                    /\ \A p \in posts' : p.uri.item # id]_vars

\* A later run has passed over an item that an earlier run left a skip marker
\* for, and nothing was ever posted for it.
C4_Witness ==
    /\ runs >= 2
    /\ pc = "loop"
    /\ idx > 1
    /\ Has(loaded, tweets[idx - 1])
    /\ loaded[tweets[idx - 1]].skipped
    /\ \A p \in posts : p.uri.item # tweets[idx - 1]
    /\ posts # {}

\* The post a history entry refers to.
PostOf(e) == CHOOSE p \in posts : p.uri = e.uri

\* C5: the root recorded for an item posted as a reply is the root recorded for
\* its parent, never the item's own post reference; the root recorded for an
\* item posted as a non-reply is its own post reference.
C5_RootPropagation ==
    \A id \in DOMAIN file :
        LET e == file[id]
        IN e.uri # NoUri =>
              /\ \E p \in posts : p.uri = e.uri
              /\ IF PostOf(e).reply = NoReply
                 THEN e.root = RefOf(e)
                 ELSE /\ e.root # RefOf(e)
                      /\ e.root = PostOf(e).reply.root
                      /\ \E q \in DOMAIN file :
                            /\ RefOf(file[q]) = PostOf(e).reply.parent
                            /\ e.root = file[q].root

\* The chain A <- B <- C is recorded: A posted as a non-reply, B as a reply to
\* A, C as a reply to B, and both B and C carry A's post reference as root.
C5_Witness ==
    \E a, b, c \in DOMAIN file :
        /\ file[a].uri # NoUri /\ file[b].uri # NoUri /\ file[c].uri # NoUri
        /\ PostOf(file[a]).reply = NoReply
        /\ PostOf(file[b]).reply.parent = RefOf(file[a])
        /\ PostOf(file[c]).reply.parent = RefOf(file[b])
        /\ file[b].root = RefOf(file[a])
        /\ file[c].root = RefOf(file[a])

-----------------------------------------------------------------------------
(* Posting failures, checked under Spec *)

\* A step in which agent.post threw: the chunk loop is left and no post made.
PostFailed == pc = "posting" /\ pc' = "loop" /\ posts' = posts

\* C11: when posting any chunk of an item fails, the item has no history record
\* afterwards and the loop goes on with the next item.
C11_FailedItemIsUnrecorded ==
    [][PostFailed => (~Has(file', tweet.id) /\ idx' = idx + 1)]_vars

\* C11 as amended: when posting a chunk fails, no later chunk of the item is
\* posted (a chunk after the first is posted only while the run that recorded
\* the first is still on that item) and the loop goes on with the next item;
\* the history is left as it was, so the item is without record exactly when
\* the failed chunk was its first; an item without record is taken up from its
\* first chunk when a non-dry run reaches it.
C11_FailedPostAbandonsItem ==
    [][/\ PostFailed => /\ idx' = idx + 1
                        /\ file' = file
                        /\ Has(file', tweet.id) <=> ci > 0
       /\ \A p \in NewPosts : /\ pc = "posting"
                               /\ p.uri.item = tweets[idx]
                               /\ p.uri.chunk = ci
                               /\ ci > 0 => Has(file, p.uri.item)
       /\ (pc = "loop" /\ idx <= Len(tweets) /\ ~dryRun /\ ~Has(file, tweets[idx]))
             => \/ pc' = "posting" /\ ci' = 0 /\ tweet'.id = tweets[idx]
                \/ Has(file', tweets[idx]) /\ file'[tweets[idx]].skipped]_vars

\* The run that repeats a batch is posting the first chunk of an item of the
\* batch that the run before it left without record: its first post had failed.
C11_Witness ==
    /\ repeat
    /\ pc = "posting"
    /\ ci = 0
    /\ ~Has(loaded, tweet.id)
    /\ \A p \in posts : p.uri.item # tweet.id

\* C12: a posted history record is written in the step that posts the item's
\* first chunk, and holds that post's uri, cid and root; a failure of a later
\* chunk leaves the loop and leaves the record as it is.
C12_RecordFollowsFirstPost ==
    [][/\ \A id \in Ids :
             ((Has(file', id) /\ file'[id].uri # NoUri) /\ ~Has(file, id))
                 => \E p \in NewPosts :
                       /\ p.uri = [item |-> id, chunk |-> 0, nth |-> 1]
                       /\ file'[id].uri = p.uri
                       /\ file'[id].cid = p.cid
                       /\ file'[id].root = IF p.reply = NoReply
                                           THEN [uri |-> p.uri, cid |-> p.cid]
                                           ELSE p.reply.root
       /\ (PostFailed /\ ci > 0)
             => /\ Has(file', tweet.id)
                /\ file'[tweet.id] = file[tweet.id]
                /\ file'[tweet.id].uri = [item |-> tweet.id, chunk |-> 0, nth |-> 1]
                /\ idx' = idx + 1]_vars

\* The first chunk of a two-chunk item is posted and recorded, and the loop is
\* at the second chunk, whose post may fail.
C12_Witness ==
    /\ pc = "posting"
    /\ ci = 1
    /\ Len(chunks) = 2
    /\ Has(file, tweet.id)
    /\ file[tweet.id].uri = [item |-> tweet.id, chunk |-> 0, nth |-> 1]
    /\ \E p \in posts : p.uri = file[tweet.id].uri

-----------------------------------------------------------------------------
(* Properties of the chunk loop and the media loop, checked under SpecItem *)

\* The root of the thread a post belongs to.
RootOf(p) == IF p.reply = NoReply THEN [uri |-> p.uri, cid |-> p.cid] ELSE p.reply.root

\* The item in progress is threaded: its parent's entry carries a post reference.
Threaded ==
    /\ tweet.replyStatus # 0
    /\ Has(file, tweet.replyStatus)
    /\ file[tweet.replyStatus].uri # NoUri

\* C13: the chunks of an item form one linear reply chain: chunk i+1 is posted
\* after chunk i, as a reply to chunk i's post; the first chunk is a reply to
\* the inherited parent when the item is threaded and no reply otherwise; all
\* chunks have one root, the inherited root when threaded, else the first
\* chunk's own post reference.
C13_LinearReplyChain ==
    [][/\ \A p \in NewPosts :
             /\ p.uri.item = tweet.id
             /\ p.uri.chunk = ci
             /\ ci = 0 =>
                   p.reply = IF Threaded
                             THEN [root |-> file[tweet.replyStatus].root,
                                   parent |-> [uri |-> file[tweet.replyStatus].uri,
                                               cid |-> file[tweet.replyStatus].cid]]
                             ELSE NoReply
             /\ ci > 0 =>
                   \E q \in posts :
                       /\ q.uri = [item |-> tweet.id, chunk |-> ci - 1, nth |-> 1]
                       /\ p.reply.parent = [uri |-> q.uri, cid |-> q.cid]
                       /\ p.reply.root = RootOf(q)
       /\ \A p, q \in posts' : p.uri.item = q.uri.item => RootOf(p) = RootOf(q)]_vars

\* A threaded item was posted in three chunks, the first a reply to the post
\* of item 2, whose root is the post of item 1.
C13_Witness ==
    \E p0, p1, p2 \in posts :
        /\ p0.uri.chunk = 0 /\ p1.uri.chunk = 1 /\ p2.uri.chunk = 2
        /\ p0.uri.item = p1.uri.item /\ p1.uri.item = p2.uri.item
        /\ p0.reply.parent = [uri |-> HistoryReply.uri, cid |-> HistoryReply.cid]
        /\ p2.reply.parent = [uri |-> p1.uri, cid |-> p1.cid]
        /\ RootOf(p2) = [uri |-> HistoryTop.uri, cid |-> HistoryTop.cid]

\* C14: only the first chunk's post of an item can carry an embed (video,
\* images or quote record); every later chunk is posted with no embed.
C14_EmbedOnFirstChunkOnly ==
    \A p \in posts : p.uri.chunk > 0 => p.embed = NoEmbed

\* An item with media was posted in three chunks, the first with an embed.
C14_Witness ==
    \E p, q \in posts :
        /\ p.uri.item = q.uri.item
        /\ p.uri.chunk = 0 /\ p.embed # NoEmbed
        /\ q.uri.chunk = 2

\* C15: a downloaded video larger than 100 MB is never passed to
\* uploadVideoToBluesky, and the text the item is posted with contains the
\* link to the original item.
C15_OversizeVideoIsLinked ==
    /\ \A k \in 1..Len(uploads) : uploads[k].size <= VideoSizeLimit
    /\ (pc = "posting" /\ tooLarge # {})
          => \E k \in 1..Len(chunks) : Includes(chunks[k], TweetUrl)

\* C16: once a video of the item is uploaded, no further entity of the item is
\* downloaded or uploaded and the blob is kept; a video embed is carried by
\* the first chunk only and holds the blob of that one upload.
C16_OneVideoPerItem ==
    [][/\ videoBlob # 0 => /\ fetched' = fetched
                           /\ uploads' = uploads
                           /\ videoBlob' = videoBlob
       /\ videoBlob' # 0 => /\ \A k \in fetched' : k <= videoBlob'
                            /\ uploads'[Len(uploads')].entity = videoBlob'
       /\ \A p \in NewPosts :
             p.embed.type = "video" => /\ p.uri.chunk = 0
                                       /\ p.embed.video = videoBlob
                                       /\ p.embed.images = << >>]_vars

\* The first of two video entities was uploaded and the item posted with it;
\* the second video was never downloaded.
C16_Witness ==
    /\ videoBlob # 0
    /\ \E k \in (videoBlob + 1)..Len(mediaEntities) :
          mediaEntities[k].type = "video" /\ k \notin fetched
    /\ \E p \in posts : p.embed.type = "video" /\ p.embed.video = videoBlob

-----------------------------------------------------------------------------
(* Properties of importHistory and safeSearch, checked under SpecImport *)

\* The fetch loop has reached the limit of new items.
LimitReached == importLimit # 0 /\ Len(allFoundTweets) >= importLimit

\* C19: importHistory goes on fetching pages until it has collected the limit
\* of items without record or the source returns nothing more: when the loop
\* ends after a page of items, the limit is reached, or the account has no item
\* older than that page, or the page only repeats items this call has already
\* collected.
C19_PaginationUntilLimitOrEnd ==
    (importPc = "done" /\ result.success /\ Len(result.tweets) > 0)
        => \/ LimitReached
           \/ result.tweets[Len(result.tweets)] = 1
           \/ \A k \in 1..Len(result.tweets) : result.tweets[k] \in seenIds

\* C20: a safeSearch call whose first search fails with a message containing
\* GraphQL, 404 or Bad Guest Token, thrown or returned, makes exactly one
\* refresh and exactly two searches; any other call makes no refresh and at
\* most one search; no call makes more than one refresh or two searches.
C20_RefreshAndRetryOnce ==
    importPc \in {"page", "failed"}
        => /\ refreshes <= 1
           /\ searches <= 2
           /\ IF firstFailure.how # "none" /\ firstFailure.message \cap Markers # {}
              THEN refreshes = 1 /\ searches = 2
              ELSE refreshes = 0 /\ searches <= 1

-----------------------------------------------------------------------------
(* Properties of the scheduler and the backfill queue, checked under SpecSched *)

\* C17: the queue never holds more than one request for a mapping, and a
\* request for a mapping replaces the pending one: after it the queue holds
\* exactly one request for that mapping, with the new limit, and the requests
\* of the other mappings as they were.
C17_OneRequestPerAccount ==
    /\ \A id \in MappingIds : Requests(backfillQueue, id) <= 1
    /\ [][/\ \A id \in MappingIds : Requests(backfillQueue', id) <= 1
          /\ \A id \in MappingIds, parsed \in ParsedInputs :
                (/\ backfillQueue' # backfillQueue
                 /\ Len(backfillQueue') > 0
                 /\ backfillQueue'[Len(backfillQueue')] = [id |-> id, limit |-> SafeLimit(parsed)]
                 /\ Len(backfillQueue') >= Len(backfillQueue))
                    => /\ Requests(backfillQueue', id) = 1
                       /\ Without(backfillQueue', id) = Without(backfillQueue, id)]_vars

\* C17 witness: a request has taken the place of a queued request of its
\* mapping, next to the request of another mapping.
C17_Witness ==
    /\ replaced
    /\ Len(backfillQueue) = Len(Mappings)
    /\ \A id \in MappingIds : Requests(backfillQueue, id) = 1

\* C18: a backfill is run only for a mapping with a queued request and with
\* the limit of that request; a mapping without a queued request gets the
\* incremental check of the recent window.
C18_BackfillOnlyForQueuedMapping ==
    /\ lastServed.kind = "backfill"
          => \/ lastServed.request # 0 /\ lastServed.limit = lastServed.request
             \/ lastServed.queued
    /\ lastServed.kind = "incremental"
          => lastServed.request = 0 /\ lastServed.limit = RecentWindow

-----------------------------------------------------------------------------
(* The order of a batch, checked under Spec *)

\* A run is going through its batch.
InRun == pc \in {"loop", "posting"}

\* The batch of the run lists its items oldest first (item ids grow with time).
OldestFirst == \A j, k \in 1..Len(tweets) : j < k => tweets[j] < tweets[k]

\* C21: the items of a batch are processed oldest first, and every item before
\* the one the loop is at has its outcome recorded (posted or skipped) when the
\* loop is at an item, in a run that is not a dry run: so a parent of the same
\* batch is recorded before its reply is classified.
C21_EarlierItemsRecordedFirst ==
    (InRun /\ ~dryRun /\ idx <= Len(tweets))
        => /\ OldestFirst
           /\ \A k \in 1..Len(tweets) : k < idx => Has(processedTweets, tweets[k])

\* C21 as amended: the items of a batch are processed oldest first and one at
\* a time: the loop only moves from an item to the one after it, and it does
\* so when the item has a history entry (posted or skipped), or a post of the
\* item has failed, or the run is a dry run.  (A parent of the same batch whose
\* first post failed is without record when its reply is classified.)
C21_OldestFirst ==
    /\ [](InRun => OldestFirst)
    /\ [][(InRun /\ InRun' /\ idx <= Len(tweets) /\ idx' # idx)
            => /\ idx' = idx + 1
               /\ pc' = "loop"
               /\ \/ Has(processedTweets', tweets[idx])
                  \/ PostFailed
                  \/ dryRun]_vars

\* C21 witness: a run that is not a dry run is past the first two items of its
\* batch; it has posted the first and threaded the second, a reply, to it.
C21_Witness ==
    /\ pc = "loop"
    /\ ~dryRun
    /\ idx = 3
    /\ ~Has(loaded, tweets[1])
    /\ Has(processedTweets, tweets[1])
    /\ Has(processedTweets, tweets[2])
    /\ processedTweets[tweets[1]].uri # NoUri
    /\ processedTweets[tweets[2]].root = RefOf(processedTweets[tweets[1]])

-----------------------------------------------------------------------------
(* The shape of history entries, checked under Spec *)

\* A posted entry: post reference and root reference, all four parts present.
PostedShape(e) ==
    /\ e.uri # NoUri
    /\ e.cid # NoUri
    /\ e.root.uri # NoUri
    /\ e.root.cid # NoUri
    /\ ~e.skipped
    /\ ~e.migrated

\* C22: every history entry written by processTweets (every entry but the
\* { migrated: true } markers of a converted v1 file) is a posted entry with a
\* post reference and a root reference, or a skip marker with neither; this
\* holds of the file and of the history in memory.
C22_RecordShape ==
    /\ \A id \in DOMAIN file :
          ~file[id].migrated => (PostedShape(file[id]) \/ file[id] = SkipMarker)
    /\ \A id \in DOMAIN processedTweets :
          ~processedTweets[id].migrated
              => (PostedShape(processedTweets[id]) \/ processedTweets[id] = SkipMarker)

\* C22 witness: the file holds a posted entry that is its own root, a posted
\* entry of a reply whose root is another post, and a skip marker.
C22_Witness ==
    \E i, j, k \in DOMAIN file :
        /\ PostedShape(file[i]) /\ file[i].root = RefOf(file[i])
        /\ PostedShape(file[j]) /\ file[j].root # RefOf(file[j])
        /\ file[k] = SkipMarker

-----------------------------------------------------------------------------
(* Restart between items, checked under SpecRestart *)

-----------------------------------------------------------------------------
(* Overlap of checks, checked under SpecCron *)

\* C24: no two check runs overlap: at most one checkAndPost call is under way
\* at any time, so no item is being processed by two runs at once.
C24_SingleWorker ==
    /\ \A c, d \in Calls : (checks[c].pc # "idle" /\ checks[d].pc # "idle") => c = d
    /\ \A c, d \in Calls :
          (checks[c].pc = "item" /\ checks[d].pc = "item" /\ checks[c].at = checks[d].at)
              => c = d

-----------------------------------------------------------------------------
(* Dry runs, checked under SpecItem *)

\* C25: a dry run of processTweets creates no post, downloads and uploads no
\* media and writes no history entry, posted or skipped: the history file stays
\* what the run loaded.
C25_DryRunHasNoEffects ==
    /\ [][dryRun => /\ posts' = posts
                    /\ file' = file
                    /\ writes' = writes
                    /\ uploads' = uploads
                    /\ images' = images
                    /\ videoBlob' = videoBlob
                    /\ fetched' = fetched]_vars
    /\ []((dryRun /\ InRun) => file = loaded)

\* C25 witness: a dry run has gone past an item without history entry and is
\* about to return; the item is still without entry.
C25_Witness ==
    /\ dryRun
    /\ RunOver
    /\ Len(tweets) > 0
    /\ ~Has(file, tweets[1])
    /\ ~Has(processedTweets, tweets[1])

-----------------------------------------------------------------------------
(* Quotes, checked under SpecItem *)

\* C26: when the item quotes an item with a posted history entry, the post of
\* its first chunk carries an embed that holds the uri and cid of the quoted
\* item's post.
C26_QuoteOfPostedItemIsEmbedded ==
    [][\A p \in NewPosts :
          (p.uri.chunk = 0 /\ QuoteIsLocal)
              => p.embed.record = RefOf(processedTweets[quoted])]_vars


\* The number of places of a text where a pattern begins.
Occurrences(str, pat) ==
    Cardinality({k \in 1..(Len(str) + 1 - Len(pat)) :
                    SubSeq(str, k, k + Len(pat) - 1) = pat})

\* The item quotes an item without history entry.
QuoteIsUnknown == quoted # 0 /\ ~Has(processedTweets, quoted)

\* C27: when the item quotes an item without history entry, no quote embed is
\* built, no post of the item carries a record embed, and the text that is
\* chunked holds the address of the quoted item exactly once: appended after
\* the label, unless the text held it already.
C27_ExternalQuoteIsLinked ==
    /\ [][(pc = "media" /\ pc' = "posting" /\ QuoteIsUnknown)
            => /\ quoteEmbed' = NoRef
               /\ Occurrences(text', QuoteUrl) = 1
               /\ Occurrences(text', <<"Q", " ">> \o QuoteUrl) <= 1]_vars
    /\ [][\A p \in NewPosts : QuoteIsUnknown => p.embed.record = NoRef]_vars

\* C27 witness: the first chunk of an item that quotes an item without history
\* entry has been posted; the link was appended to its text.
C27_Witness ==
    /\ quoted = ForeignId
    /\ ~Has(file, quoted)
    /\ quoteEmbed = NoRef
    /\ Occurrences(text, <<"\n", "\n", "Q", " ">> \o QuoteUrl) = 1
    /\ \E p \in posts : p.uri.item = tweets[1] /\ p.uri.chunk = 0

-----------------------------------------------------------------------------
(* Photo failures, checked under SpecItem *)

\* A step in which the download or the upload of the photo at mi failed.
PhotoFailed ==
    /\ pc = "media"
    /\ mi <= Len(mediaEntities)
    /\ mediaEntities[mi].type = "photo"
    /\ mi \in fetched'
    /\ images' = images
    /\ mi' # mi

\* The photos of the item that were uploaded, in entity order.
RECURSIVE UploadedPhotos(_)
UploadedPhotos(k) ==
    IF k = 0 THEN << >>
    ELSE IF \E n \in 1..Len(images) : images[n] = k
         THEN Append(UploadedPhotos(k - 1), k)
         ELSE UploadedPhotos(k - 1)

\* C28: a failed download or upload of a photo drops that photo only: the
\* loop goes on with the next entity and leaves text and blobs as they were,
\* the preparation is never abandoned, and when no video was uploaded the
\* first chunk's embed holds exactly the uploaded photos, in entity order.
C28_PhotoFailureDropsOnlyThatPhoto ==
    /\ [][PhotoFailed => /\ mi' = mi + 1
                         /\ pc' = "media"
                         /\ text' = text
                         /\ videoBlob' = videoBlob]_vars
    /\ [][pc = "media" => pc' \in {"media", "posting"}]_vars
    /\ [][\A p \in NewPosts :
            (p.uri.chunk = 0 /\ videoBlob = 0)
                => /\ p.embed.images = UploadedPhotos(Len(mediaEntities))
                   /\ p.embed.images = images
                   /\ \A n \in 1..Len(images) :
                         mediaEntities[images[n]].type = "photo"]_vars

\* C28 witness: the first photo of an item failed, the second was uploaded,
\* and the first chunk was posted with the second photo alone.
C28_Witness ==
    /\ Len(mediaEntities) = 2
    /\ mediaEntities[1].type = "photo"
    /\ 1 \in fetched
    /\ images = <<2>>
    /\ \E p \in posts :
        /\ p.uri.item = tweets[1]
        /\ p.uri.chunk = 0
        /\ p.embed.images = <<2>>

-----------------------------------------------------------------------------
(* Failures of one mapping, checked under SpecSched *)

\* A step in which the login of the mapping the loop is at failed.
LoginFailed ==
    /\ schedPc = "check"
    /\ mappingIdx <= Len(Mappings)
    /\ logins'[Mappings[mappingIdx]] = logins[Mappings[mappingIdx]] + 1
    /\ Mappings[mappingIdx] \notin activeAgents'

\* A step in which the work of the mapping the loop is at ended, by returning
\* or by an exception.
WorkEnded == schedPc = "backfilling" /\ schedPc' # "backfilling"

-----------------------------------------------------------------------------
(* The choice of a video variant, checked under SpecVariants *)

Mp4Positions == {k \in 1..Len(variants) : IsMp4(variants[k])}

\* C30: once the entity has been handled, nothing was downloaded if it has no
\* video/mp4 variant; otherwise exactly one url was downloaded, that of a
\* video/mp4 variant whose bitrate (a missing one counting as 0) no other
\* video/mp4 variant exceeds, and the earliest such variant in input order.
C30_HighestBitrateMp4 ==
    selPc = "done" =>
        IF Mp4Positions = {}
        THEN downloads = << >>
        ELSE /\ Len(downloads) = 1
             /\ downloads[1] \in Mp4Positions
             /\ \A j \in Mp4Positions :
                    /\ BitrateOr0(variants[j]) <= BitrateOr0(variants[downloads[1]])
                    /\ BitrateOr0(variants[j]) = BitrateOr0(variants[downloads[1]])
                           => downloads[1] <= j

\* C30 witness: a non-MP4 variant with the highest bitrate of all, an MP4
\* variant without a bitrate, and two MP4 variants tied for the highest MP4
\* bitrate: the earlier of the two was downloaded.
C30_Witness ==
    /\ selPc = "done"
    /\ Len(variants) = 4
    /\ ~IsMp4(variants[1]) /\ variants[1].bitrate = <<3>>
    /\ IsMp4(variants[2]) /\ variants[2].bitrate = << >>
    /\ IsMp4(variants[3]) /\ variants[3].bitrate = <<2>>
    /\ IsMp4(variants[4]) /\ variants[4].bitrate = <<2>>
    /\ downloads = <<3>>

-----------------------------------------------------------------------------
(* A parent and its reply in one batch, checked under SpecThread *)

\* C34: when the first post of a parent fails, the parent is left without
\* entry and the loop goes on; in a run that is not a dry run, a reply the loop
\* has passed while its parent (the item before it in the batch) had no entry
\* holds the skip marker; and an item that holds the skip marker keeps it and
\* never gets a post, whatever becomes of its parent in later runs.
C34_ReplyOfFailedParentStaysSkipped ==
    /\ []((InRun /\ ~dryRun) =>
            \A k \in 2..Len(tweets) :
                (k < idx /\ ~Has(processedTweets, tweets[k - 1]))
                    => /\ Has(file, tweets[k])
                       /\ file[tweets[k]] = SkipMarker)
    /\ [](\A id \in DOMAIN file :
            file[id] = SkipMarker => \A p \in posts : p.uri.item # id)
    /\ [][/\ (PostFailed /\ ci = 0) => (~Has(file', tweet.id) /\ idx' = idx + 1)
          /\ \A id \in DOMAIN file :
                file[id] = SkipMarker => (Has(file', id) /\ file'[id] = SkipMarker)]_vars

\* C34 witness: a second run over the batch of parent 1 and reply 2 is over:
\* the parent, whose post had failed in the first run, is posted now; the
\* reply holds the skip marker of the first run and has no post.
C34_Witness ==
    /\ pc = "loop"
    /\ runs = 2
    /\ repeat
    /\ tweets = <<1, 2>>
    /\ idx > Len(tweets)
    /\ Has(file, 1) /\ file[1].uri # NoUri
    /\ Has(file, 2) /\ file[2] = SkipMarker
    /\ \E p \in posts : p.uri.item = 1
    /\ \A p \in posts : p.uri.item # 2

-----------------------------------------------------------------------------
(* Failures of the video flow, checked under SpecItem *)

\* The step of the media loop in which a video entity was downloaded, or its
\* download tried, and the flow failed: downloadMedia or uploadVideoToBluesky
\* threw (a rejected upload, a failed job and a timeout all are throws of the
\* latter).
VideoFailed ==
    /\ pc = "media"
    /\ mi <= Len(mediaEntities)
    /\ mediaEntities[mi].type = "video"
    /\ mi \in fetched'
    /\ mi \notin tooLarge'
    /\ videoBlob' # mi

\* C35: a failure of the video flow leaves the media loop at the next entity
\* with the photos uploaded so far and no video blob; it appends the link to
\* the original item, or leaves the text as it is when the text holds the
\* item's address already, so that the text never holds the appended link
\* twice; no post of the item carries a video embed for an entity whose flow
\* failed; and the item reaches the chunk loop with at least one chunk to post.
C35_VideoFailureFallback ==
    /\ [](/\ Occurrences(text, <<"O">>) <= 1
          /\ pc = "posting" => Len(chunks) >= 1)
    /\ [][/\ VideoFailed =>
                /\ pc' = "media"
                /\ mi' = mi + 1
                /\ images' = images
                /\ videoBlob' = 0
                /\ \/ Includes(text, TweetUrl) /\ text' = text
                   \/ ~Includes(text, TweetUrl)
                        /\ text' = text \o <<"\n", "\n">> \o FallbackLink
          /\ \A p \in NewPosts :
                p.embed.type = "video" =>
                    /\ p.embed.video \in fetched
                    /\ uploads[Len(uploads)].entity = p.embed.video
                    /\ \A k \in fetched : k <= p.embed.video]_vars

\* C35 witness: the flows of both videos of an item failed, the text holds
\* the appended link once, and the first chunk has been posted without embed.
C35_Witness ==
    /\ pc \in {"posting", "loop"}
    /\ Len(mediaEntities) = 2
    /\ mediaEntities[1].type = "video" /\ mediaEntities[2].type = "video"
    /\ fetched = {1, 2}
    /\ tooLarge = {}
    /\ videoBlob = 0
    /\ Occurrences(text, FallbackLink) = 1
    /\ \E p \in posts : p.uri.item = tweet.id /\ p.uri.chunk = 0 /\ p.embed = NoEmbed

-----------------------------------------------------------------------------
(* The batch and the searches of a backfill, checked under SpecImport *)

\* C36: with a limit >= 1, what importHistory has collected, and so the batch
\* it hands to processTweets, never holds more than `limit` items, holds no
\* id twice and holds no id that has an entry in the history it loaded.
C36_BackfillBatchWithinLimit ==
    importLimit >= 1 =>
        /\ Len(allFoundTweets) <= importLimit
        /\ \A j, k \in 1..Len(allFoundTweets) :
              j # k => allFoundTweets[j] # allFoundTweets[k]
        /\ \A k \in 1..Len(allFoundTweets) : ~Has(processedTweets, allFoundTweets[k])

\* C36 witness: limit 1 and a page of two items without entry: the fetch is
\* over with the first of them collected.
C36_Witness ==
    /\ importPc = "done"
    /\ importLimit = 1
    /\ result.success
    /\ Len(result.tweets) = 2
    /\ \A k \in 1..2 : ~Has(processedTweets, result.tweets[k])
    /\ allFoundTweets = <<result.tweets[1]>>

\* C37: with a limit >= 1 the fetch loop makes at most `limit` calls of
\* safeSearch: an iteration after which the loop goes on has added at least
\* one item and has left the collection below the limit.
C37_FetchLoopTerminates ==
    /\ [](importLimit >= 1 => calls <= importLimit)
    /\ [][(importLimit >= 1 /\ importPc = "page" /\ importPc' = "fetch")
             => /\ Len(allFoundTweets') > Len(allFoundTweets)
                /\ Len(allFoundTweets') < importLimit]_vars

\* C37 witness: limit 3, and the third call of safeSearch ended the fetch
\* with the third item.
C37_Witness ==
    /\ importPc = "done"
    /\ importLimit = 3
    /\ calls = 3
    /\ Len(allFoundTweets) = 3

-----------------------------------------------------------------------------
(* The key of the history store, checked under SpecStore *)

\* C40: the table never holds two rows of one (item id, account); a
\* saveTweet leaves exactly one row of its key, which getTweet returns with
\* the values saved (an optional value that is missing or empty as NULL), and
\* leaves the rows of every other key, and what getTweet returns for them,
\* as they were.
C40_StoreKey ==
    /\ [](\A id \in TwitterIds, b \in BskyIdentifiers :
             Cardinality(RowsAt(rows, id, b)) <= 1)
    /\ [][LET t == lastCall'.tweet
          IN lastCall'.called =>
             /\ Cardinality(RowsAt(rows', t.twitter_id, t.bsky_identifier)) = 1
             /\ GetTweet(rows', t.twitter_id, t.bsky_identifier) =
                   [twitter_id |-> t.twitter_id, bsky_identifier |-> t.bsky_identifier,
                    bsky_uri |-> IF t.bsky_uri = "at://1" THEN "at://1" ELSE Null,
                    status |-> t.status]
             /\ \A id \in TwitterIds, b \in BskyIdentifiers :
                   <<id, b>> # <<t.twitter_id, t.bsky_identifier>>
                       => /\ RowsAt(rows', id, b) = RowsAt(rows, id, b)
                          /\ GetTweet(rows', id, b) = GetTweet(rows, id, b)]_vars

\* C40 witness: item 1 is recorded as skipped for account B; its record for
\* account A, saved before, has just been saved again as posted.
C40_Witness ==
    /\ lastCall.called
    /\ lastCall.replaced
    /\ lastCall.tweet.twitter_id = 1
    /\ lastCall.tweet.bsky_identifier = "A"
    /\ lastCall.tweet.status = "migrated"
    /\ RowsAt(rows, 1, "A") # {}
    /\ GetTweet(rows, 1, "A").bsky_uri = "at://1"
    /\ RowsAt(rows, 1, "B") # {}
    /\ GetTweet(rows, 1, "B").status = "skipped"
    /\ Cardinality(rows) = 2

-----------------------------------------------------------------------------
(* Progress of the backfill queue, checked under FairSched *)

\* C33: a backfill request queued for a mapping is eventually removed from
\* the queue (by the backfill that serves it, or at least by anything), so
\* that the queue does not stay non-empty for ever.
C33_QueuedRequestIsEventuallyCleared ==
    \A id \in MappingIds :
        (Requests(backfillQueue, id) > 0) ~> (Requests(backfillQueue, id) = 0)

====
